---- MODULE Spec2Model ----
(***************************************************************************)
(* Model of scripts/run_integration_tests.py: IntegrationTestRunner and    *)
(* main.  One Python thread runs run_integration_tests; the SIGINT/SIGTERM *)
(* handler runs on that same thread between two of its steps and returns   *)
(* before the interrupted step resumes.                                    *)
(*                                                                         *)
(* The services are black boxes.  Each deviation of the environment from   *)
(* the nominal run (an executable missing, a process exiting while it      *)
(* starts, a request failing, a process ignoring SIGTERM for the grace     *)
(* window) is an input of the action that meets it and is counted in       *)
(* faults.  In Spec subprocess.Popen.terminate/kill/wait raise nothing but *)
(* TimeoutExpired, as for a child of the runner, so the except branch of   *)
(* stop_service is entered by the KeyError of its own del statement;       *)
(* SpecStopFaults adds the system that refuses the SIGTERM.  SpecRegistry  *)
(* runs the program for other registry literals, and SpecStress is one     *)
(* call of run_stress_test with its thread pool.                           *)
(***************************************************************************)
EXTENDS Integers, Sequences, FiniteSets, TLC

\* Number of environment deviations injected in one run.
MaxFaults == 1

----
\* Registry and fixed orders

Keys ==
    {"air-to-air-mesh", "neuro-fcc", "self-adaptive-rotor-blades", "cold-jet",
     "local-gravity-field-navigation", "predictive-airflow-engine",
     "self-healing-avionics-bios", "vortex-shield", "air-swarm-os",
     "star-nav-core"}

TechnologyConfig(p, st, d, c) ==
    [port |-> p, startup_time |-> st, dependencies |-> d, critical |-> c]

\* A registry in which neuro-fcc and vortex-shield depend on each other and
\* listen on the same port.
technologies_invalid ==
    ("air-to-air-mesh" :> TechnologyConfig(8081, 10, <<>>, FALSE)) @@
    ("neuro-fcc" :> TechnologyConfig(8082, 5, <<"vortex-shield">>, TRUE)) @@
    ("self-adaptive-rotor-blades" :> TechnologyConfig(8083, 8, <<"neuro-fcc">>, FALSE)) @@
    ("cold-jet" :> TechnologyConfig(8084, 15, <<"self-adaptive-rotor-blades">>, FALSE)) @@
    ("local-gravity-field-navigation" :> TechnologyConfig(8085, 12, <<"cold-jet">>, FALSE)) @@
    ("predictive-airflow-engine" :>
        TechnologyConfig(8086, 20, <<"local-gravity-field-navigation">>, FALSE)) @@
    ("self-healing-avionics-bios" :> TechnologyConfig(8087, 3, <<>>, TRUE)) @@
    ("vortex-shield" :> TechnologyConfig(8082, 7, <<"neuro-fcc">>, TRUE)) @@
    ("air-swarm-os" :>
        TechnologyConfig(8089, 25,
                         <<"predictive-airflow-engine", "self-healing-avionics-bios">>,
                         FALSE)) @@
    ("star-nav-core" :> TechnologyConfig(8090, 30, <<"air-swarm-os">>, FALSE))

technologies ==
    ("air-to-air-mesh" :> TechnologyConfig(8081, 10, <<>>, FALSE)) @@
    ("neuro-fcc" :> TechnologyConfig(8082, 5, <<"air-to-air-mesh">>, TRUE)) @@
    ("self-adaptive-rotor-blades" :> TechnologyConfig(8083, 8, <<"neuro-fcc">>, FALSE)) @@
    ("cold-jet" :> TechnologyConfig(8084, 15, <<"self-adaptive-rotor-blades">>, FALSE)) @@
    ("local-gravity-field-navigation" :> TechnologyConfig(8085, 12, <<"cold-jet">>, FALSE)) @@
    ("predictive-airflow-engine" :>
        TechnologyConfig(8086, 20, <<"local-gravity-field-navigation">>, FALSE)) @@
    ("self-healing-avionics-bios" :> TechnologyConfig(8087, 3, <<>>, TRUE)) @@
    ("vortex-shield" :> TechnologyConfig(8088, 7, <<"neuro-fcc">>, TRUE)) @@
    ("air-swarm-os" :>
        TechnologyConfig(8089, 25,
                         <<"predictive-airflow-engine", "self-healing-avionics-bios">>,
                         FALSE)) @@
    ("star-nav-core" :> TechnologyConfig(8090, 30, <<"air-swarm-os">>, FALSE))

\* The keys of self.technologies in the order the dict literal declares them.
declaration_order ==
    <<"air-to-air-mesh", "neuro-fcc", "self-adaptive-rotor-blades", "cold-jet",
      "local-gravity-field-navigation", "predictive-airflow-engine",
      "self-healing-avionics-bios", "vortex-shield", "air-swarm-os",
      "star-nav-core">>

\* The registry with air-to-air-mesh made dependent on star-nav-core, which
\* closes a cycle through all the flight-control services.
technologies_cyclic ==
    [technologies EXCEPT !["air-to-air-mesh"].dependencies = <<"star-nav-core">>]

\* The registry with a dependency on an id that no entry declares.
technologies_undeclared ==
    [technologies EXCEPT !["air-to-air-mesh"].dependencies = <<"ground-radar">>]

\* The registry literals __init__ is run with, by name.
Registries ==
    [shipped |-> technologies,
     cyclic |-> technologies_cyclic,
     undeclared |-> technologies_undeclared]

\* start_order as the topological sort that starts the earliest declared of
\* the ready services.
start_order_declared ==
    <<"air-to-air-mesh", "neuro-fcc", "self-adaptive-rotor-blades", "cold-jet",
      "local-gravity-field-navigation", "predictive-airflow-engine",
      "self-healing-avionics-bios", "vortex-shield", "air-swarm-os",
      "star-nav-core">>

\* start_order with neuro-fcc moved in front of the service it depends on.
start_order_swapped ==
    <<"neuro-fcc", "air-to-air-mesh", "self-healing-avionics-bios",
      "self-adaptive-rotor-blades", "vortex-shield", "cold-jet",
      "local-gravity-field-navigation", "predictive-airflow-engine",
      "air-swarm-os", "star-nav-core">>

start_order ==
    <<"air-to-air-mesh", "self-healing-avionics-bios", "neuro-fcc",
      "self-adaptive-rotor-blades", "vortex-shield", "cold-jet",
      "local-gravity-field-navigation", "predictive-airflow-engine",
      "air-swarm-os", "star-nav-core">>

\* stop_order with neuro-fcc stopped before its dependant vortex-shield.
stop_order_early ==
    <<"star-nav-core", "air-swarm-os", "predictive-airflow-engine",
      "local-gravity-field-navigation", "cold-jet", "self-adaptive-rotor-blades",
      "neuro-fcc", "vortex-shield", "air-to-air-mesh",
      "self-healing-avionics-bios">>

\* stop_order without its last entry.
stop_order_short ==
    <<"star-nav-core", "air-swarm-os", "predictive-airflow-engine",
      "local-gravity-field-navigation", "cold-jet", "self-adaptive-rotor-blades",
      "vortex-shield", "neuro-fcc", "air-to-air-mesh">>

stop_order ==
    <<"star-nav-core", "air-swarm-os", "predictive-airflow-engine",
      "local-gravity-field-navigation", "cold-jet", "self-adaptive-rotor-blades",
      "vortex-shield", "neuro-fcc", "air-to-air-mesh",
      "self-healing-avionics-bios">>

communication_pairs ==
    <<<<"neuro-fcc", "self-adaptive-rotor-blades">>,
      <<"neuro-fcc", "vortex-shield">>,
      <<"air-swarm-os", "star-nav-core">>,
      <<"predictive-airflow-engine", "neuro-fcc">>>>

\* Outcomes of the batch of stress requests: how many of them got a 200.
StressRequests == 50
\* ThreadPoolExecutor(max_workers=10)
max_workers == 10
StressOutcomes == {StressRequests, 48, 47, 40}

----
\* Helpers

Range(f) == {f[x] : x \in DOMAIN f}

\* The dependencies of every registered service, as sets.
DependencySets == [k \in Keys |-> Range(technologies[k].dependencies)]

Dependencies(k) == DependencySets[k]

Op(name, k) == <<name, k>>
OpKeys(o, name) == {o[n][2] : n \in {m \in DOMAIN o : o[m][1] = name}}
HasOp(o, name) == \E n \in DOMAIN o : o[n][1] = name

Index(seq, x) == CHOOSE n \in DOMAIN seq : seq[n] = x

----
\* State

VARIABLES
    pc,               \* position of the main flow
    ctx,              \* caller of the stop_all_services pass in progress
    i,                \* index of the loop of run_integration_tests in progress
    s,                \* index into stop_order of the main flow's pass
    running,          \* self.running
    processes,        \* keys of self.processes
    alive,            \* services whose OS process is alive
    spawned,          \* services for which Popen returned a process
    started_services, \* the local list of run_integration_tests
    results,          \* the results dict
    tech_results,     \* the tests dict of the service being probed
    startLog,         \* the start_service calls made so far, in order
    ops,              \* what the last step did: calls, signals sent, requests
    faults,           \* environment deviations injected so far
    aborted,          \* the critical-failure branch was taken
    quiesced,         \* a stop_all_services pass completed and nothing spawned since
    repeated,         \* the main flow's pass in progress began in a quiesced state
    saved,            \* save_results wrote the results
    reported,         \* the report was generated, saved and the summary printed
    exit_status,      \* -1 while the program runs, then the status of sys.exit
    registry,         \* the name of the literal self.technologies was built from
    pool,             \* the ThreadPoolExecutor of the run_stress_test call in progress
    health,           \* the check_service_health call in progress
    batch,            \* the futures of one run_stress_test call, one by one
    bench,            \* one run_single_benchmark call of the benchmark runner
    suite,            \* run_all_benchmarks of the benchmark runner
    analysis          \* one analyze_performance call of the performance analyzer

vars == <<pc, ctx, i, s, running, processes, alive, spawned, started_services,
          results, tech_results, startLog, ops, faults, aborted, quiesced,
          repeated, saved, reported, exit_status, registry, pool, health, batch, bench, suite, analysis>>

\* self.technologies
self_technologies == Registries[registry]

NoTests == [x \in {} |-> TRUE]

\* No stress test is in progress.
NoPool == [state |-> "none", workers |-> 0, queue |-> 0, inflight |-> 0,
           ok |-> 0, failed |-> 0, result |-> NoTests]

\* No health check is in progress.
NoHealth == [state |-> "none", key |-> "", reply |-> <<>>, result |-> <<>>]

\* No run_stress_test call is followed future by future.
NoBatch == [state |-> "none", outcome |-> <<>>, done |-> {}, results |-> <<>>,
            overtakes |-> 0, result |-> NoTests]

\* No run_single_benchmark call is in progress (run_benchmarks.py).
NoBench == [state |-> "none", iterations |-> 0, times |-> <<>>, success_count |-> 0,
            result |-> NoTests]

\* analyze_performance has not been called (analyze_performance.py).
NoAnalysis == [state |-> "none", tech |-> "", metrics |-> NoTests, result |-> NoTests]

\* run_all_benchmarks has not been called (run_benchmarks.py).
NoSuite == [pc |-> "none", tech |-> 1, test |-> 1, process |-> "", alive |-> {},
            results |-> 0, raised |-> FALSE, all_results |-> NoTests]

\* Lines 46-51 and the locals of run_integration_tests before its first loop.
Constructed ==
    /\ pc = "start"
    /\ ctx = "none"
    /\ i = 1
    /\ s = 1
    /\ running = TRUE
    /\ processes = {}
    /\ alive = {}
    /\ spawned = {}
    /\ started_services = <<>>
    /\ results = [total_tests |-> 0, passed_tests |-> 0, failed_tests |-> 0,
                  technologies |-> NoTests, communication_tests |-> NoTests,
                  keys |-> {}, success_rate |-> 0, overall_passed |-> FALSE]
    /\ tech_results = NoTests
    /\ startLog = <<>>
    /\ ops = <<>>
    /\ faults = 0
    /\ aborted = FALSE
    /\ quiesced = FALSE
    /\ repeated = FALSE
    /\ saved = FALSE
    /\ reported = FALSE
    /\ exit_status = -1

Init ==
    /\ Constructed
    /\ registry = "shipped"
    /\ pool = NoPool
    /\ health = NoHealth
    /\ batch = NoBatch
    /\ bench = NoBench
    /\ suite = NoSuite
    /\ analysis = NoAnalysis

\* An environment deviation is injected only while the budget lasts.
Fault(isFault) ==
    /\ isFault => faults < MaxFaults
    /\ faults' = IF isFault THEN faults + 1 ELSE faults

----
\* start_service and the start loop

\* StartReturned without the critical branch: a failed start never aborts.
StartReturned_noabort(k, ok) ==
    /\ started_services' = IF ok THEN Append(started_services, k) ELSE started_services
    /\ pc' = IF i = Len(start_order) THEN "probe" ELSE "start"
    /\ i' = IF i = Len(start_order) THEN 1 ELSE i + 1
    /\ UNCHANGED <<ctx, s, aborted, repeated>>

\* StartReturned that aborts on the failed start of any service.
StartReturned_abortany(k, ok) ==
    /\ started_services' = IF ok THEN Append(started_services, k) ELSE started_services
    /\ IF ~ok
       THEN /\ pc' = "stop_check"
            /\ ctx' = "abort"
            /\ s' = 1
            /\ aborted' = TRUE
            /\ repeated' = quiesced
            /\ i' = i
       ELSE /\ pc' = IF i = Len(start_order) THEN "probe" ELSE "start"
            /\ i' = IF i = Len(start_order) THEN 1 ELSE i + 1
            /\ UNCHANGED <<ctx, s, aborted, repeated>>

\* StartReturned that leaves the start loop for the probing loop as soon as
\* one service has started.
StartReturned_early(k, ok) ==
    /\ started_services' = IF ok THEN Append(started_services, k) ELSE started_services
    /\ IF ~ok /\ self_technologies[k].critical
       THEN /\ pc' = "stop_check"
            /\ ctx' = "abort"
            /\ s' = 1
            /\ aborted' = TRUE
            /\ repeated' = quiesced
            /\ i' = i
       ELSE /\ pc' = IF i = Len(start_order) \/ ok THEN "probe" ELSE "start"
            /\ i' = IF i = Len(start_order) \/ ok THEN 1 ELSE i + 1
            /\ UNCHANGED <<ctx, s, aborted, repeated>>

\* Lines 382-390: what the loop does with start_service's return value.
StartReturned(k, ok) ==
    /\ started_services' = IF ok THEN Append(started_services, k) ELSE started_services
    /\ IF ~ok /\ self_technologies[k].critical
       THEN /\ pc' = "stop_check"
            /\ ctx' = "abort"
            /\ s' = 1
            /\ aborted' = TRUE
            /\ repeated' = quiesced
            /\ i' = i
       ELSE /\ pc' = IF i = Len(start_order) THEN "probe" ELSE "start"
            /\ i' = IF i = Len(start_order) THEN 1 ELSE i + 1
            /\ UNCHANGED <<ctx, s, aborted, repeated>>

\* StartSpawn behind a dependency gate: a service with a dependency that did
\* not start is passed over without a start_service call.
StartSpawn_gated ==
    /\ pc = "start"
    /\ LET k == start_order[i] IN
       IF \E d \in Dependencies(k) : d \notin Range(started_services)
       THEN /\ pc' = IF i = Len(start_order) THEN "probe" ELSE "start"
            /\ i' = IF i = Len(start_order) THEN 1 ELSE i + 1
            /\ ops' = <<>>
            /\ UNCHANGED <<ctx, s, aborted, repeated, started_services, startLog,
                           faults, processes, alive, spawned, quiesced>>
       ELSE /\ startLog' = Append(startLog, k)
            /\ \E outcome \in {"spawned", "missing", "launch_error"} :
                 /\ Fault(outcome # "spawned")
                 /\ IF outcome = "spawned"
                    THEN /\ processes' = processes \cup {k}
                         /\ alive' = alive \cup {k}
                         /\ spawned' = spawned \cup {k}
                         /\ quiesced' = FALSE
                         /\ ops' = <<Op("start_service", k), Op("spawn", k)>>
                         /\ pc' = "start_wait"
                         /\ UNCHANGED <<ctx, i, s, aborted, repeated, started_services>>
                    ELSE /\ ops' = <<Op("start_service", k)>>
                         /\ StartReturned(k, FALSE)
                         /\ UNCHANGED <<processes, alive, spawned, quiesced>>
    /\ UNCHANGED <<running, results, tech_results, saved, reported, exit_status>>
    /\ UNCHANGED <<registry, pool, health, batch, bench, suite, analysis>>

\* Lines 165-192: the executable check, Popen, the entry in self.processes.
StartSpawn ==
    /\ pc = "start"
    /\ LET k == start_order[i] IN
       /\ startLog' = Append(startLog, k)
       /\ \E outcome \in {"spawned", "missing", "launch_error"} :
            /\ Fault(outcome # "spawned")
            /\ IF outcome = "spawned"
               THEN /\ processes' = processes \cup {k}
                    /\ alive' = alive \cup {k}
                    /\ spawned' = spawned \cup {k}
                    /\ quiesced' = FALSE
                    /\ ops' = <<Op("start_service", k), Op("spawn", k)>>
                    /\ pc' = "start_wait"
                    /\ UNCHANGED <<ctx, i, s, aborted, repeated, started_services>>
               ELSE /\ ops' = <<Op("start_service", k)>>
                    /\ StartReturned(k, FALSE)
                    /\ UNCHANGED <<processes, alive, spawned, quiesced>>
    /\ UNCHANGED <<running, results, tech_results, saved, reported, exit_status>>
    /\ UNCHANGED <<registry, pool, health, batch, bench, suite, analysis>>

\* StartPoll that takes the service for started without polling the process.
StartPoll_nopoll ==
    /\ pc = "start_wait"
    /\ LET k == start_order[i] IN
       \E exited \in BOOLEAN :
            /\ exited => k \in alive
            /\ Fault(exited)
            /\ alive' = IF exited THEN alive \ {k} ELSE alive
            /\ StartReturned(k, TRUE)
    /\ ops' = <<>>
    /\ UNCHANGED <<running, processes, spawned, results, tech_results, startLog,
                   quiesced, saved, reported, exit_status>>
    /\ UNCHANGED <<registry, pool, health, batch, bench, suite, analysis>>

\* Lines 192-200: after the startup sleep, poll the process.
StartPoll ==
    /\ pc = "start_wait"
    /\ LET k == start_order[i] IN
       \E exited \in BOOLEAN :
            /\ exited => k \in alive
            /\ Fault(exited)
            /\ alive' = IF exited THEN alive \ {k} ELSE alive
            /\ StartReturned(k, k \in alive')
    /\ ops' = <<>>
    /\ UNCHANGED <<running, processes, spawned, results, tech_results, startLog,
                   quiesced, saved, reported, exit_status>>
    /\ UNCHANGED <<registry, pool, health, batch, bench, suite, analysis>>

----
\* Probes

\* Lines 256-272: the health request answers 200 only from a live process.
check_service_health(k, ok) == k \in alive /\ ok

\* Lines 294-315: TRUE when the returned dict carries no "error" key.
run_performance_test(k, ok) == k \in alive /\ ok

\* StressResult with the pass mark above 96 percent.
StressResult_strict(successes, total) ==
    LET success_rate == (successes * 100) \div total IN
    [total_requests |-> total,
     successful_requests |-> successes,
     success_rate |-> success_rate,
     passed |-> success_rate > 96]

\* Lines 340-347: the dict built from the list of request outcomes, of which
\* only sum and len are read.  success_rate is sum/len*100 in floating point;
\* for len = 50 that is 2*sum, up to one unit in the last place for sum = 7,
\* 14, 28 and 29, which is far from the pass mark.
StressResult(successes, total) ==
    LET success_rate == (successes * 100) \div total IN
    [total_requests |-> total,
     successful_requests |-> successes,
     success_rate |-> success_rate,
     passed |-> success_rate >= 95]

\* Lines 317-347: the dict returned when n_ok of the requests are answered
\* with 200.
run_stress_test(n_ok) == StressResult(n_ok, StressRequests)

\* Lines 274-292: the POST goes to the first service of the pair.
test_service_communication(tech1, tech2, ok) == tech1 \in alive /\ ok

\* Counted that counts every check as passed.
Counted_allpass(r, passed) ==
    [r EXCEPT !.total_tests = @ + 1, !.passed_tests = @ + 1]

\* Counted that leaves failed_tests alone.
Counted_lost(r, passed) ==
    [r EXCEPT !.total_tests = @ + 1,
              !.passed_tests = IF passed THEN @ + 1 ELSE @]

\* results["total_tests"] += 1, then one of the two other counters.
Counted(r, passed) ==
    [r EXCEPT !.total_tests = @ + 1,
              !.passed_tests = IF passed THEN @ + 1 ELSE @,
              !.failed_tests = IF passed THEN @ ELSE @ + 1]

\* Line 441: results["technologies"][tech_key] = tech_results.
Recorded(r, k, tests) ==
    [r EXCEPT !.technologies = (k :> tests) @@ @]

\* Lines 397-419: the head of the probing loop and the health check.
ProbeHealth ==
    /\ pc = "probe"
    /\ IF i > Len(started_services) \/ ~running
       THEN /\ pc' = "comm"
            /\ i' = 1
            /\ ops' = <<>>
            /\ UNCHANGED <<results, tech_results, faults>>
       ELSE LET k == started_services[i] IN
            \E ok \in BOOLEAN :
                /\ ~ok => k \in alive
                /\ Fault(~ok)
                /\ LET healthy == check_service_health(k, ok)
                       tests == "health_check" :> [passed |-> healthy]
                   IN /\ ops' = <<Op("health", k)>>
                      /\ tech_results' = tests
                      /\ IF healthy
                         THEN /\ results' = Counted(results, TRUE)
                              /\ pc' = "perf"
                              /\ i' = i
                         ELSE /\ results' = Recorded(Counted(results, FALSE), k, tests)
                              /\ pc' = "probe"
                              /\ i' = i + 1
    /\ UNCHANGED <<ctx, s, running, processes, alive, spawned, started_services,
                   startLog, aborted, quiesced, repeated, saved, reported, exit_status>>
    /\ UNCHANGED <<registry, pool, health, batch, bench, suite, analysis>>

\* ProbePerformance that leaves the probing loop when the probe fails.
ProbePerformance_stop ==
    /\ pc = "perf"
    /\ LET k == started_services[i] IN
       \E ok \in BOOLEAN :
            /\ ~ok => k \in alive
            /\ Fault(~ok)
            /\ LET good == run_performance_test(k, ok) IN
               /\ tech_results' = tech_results @@ ("performance" :> [error |-> ~good])
               /\ results' = Counted(results, good)
               /\ pc' = IF good THEN "stress" ELSE "comm"
               /\ i' = IF good THEN i ELSE 1
            /\ ops' = <<Op("performance", k)>>
    /\ UNCHANGED <<ctx, s, running, processes, alive, spawned, started_services,
                   startLog, aborted, quiesced, repeated, saved, reported, exit_status>>
    /\ UNCHANGED <<registry, pool, health, batch, bench, suite, analysis>>

\* Lines 421-429.
ProbePerformance ==
    /\ pc = "perf"
    /\ LET k == started_services[i] IN
       \E ok \in BOOLEAN :
            /\ ~ok => k \in alive
            /\ Fault(~ok)
            /\ LET good == run_performance_test(k, ok) IN
               /\ tech_results' = tech_results @@ ("performance" :> [error |-> ~good])
               /\ results' = Counted(results, good)
            /\ ops' = <<Op("performance", k)>>
    /\ pc' = "stress"
    /\ UNCHANGED <<ctx, i, s, running, processes, alive, spawned, started_services,
                   startLog, aborted, quiesced, repeated, saved, reported, exit_status>>
    /\ UNCHANGED <<registry, pool, health, batch, bench, suite, analysis>>

\* Lines 431-444.
ProbeStress ==
    /\ pc = "stress"
    /\ LET k == started_services[i] IN
       \E n_ok \in StressOutcomes \cup {0} :
            /\ (k \in alive) = (n_ok # 0)
            /\ Fault(n_ok \notin {0, StressRequests})
            /\ LET stress_result == run_stress_test(n_ok)
                   tests == tech_results @@ ("stress" :> stress_result)
               IN /\ tech_results' = tests
                  /\ results' = Recorded(Counted(results, stress_result.passed), k, tests)
            /\ ops' = <<Op("stress", k)>>
    /\ pc' = "probe"
    /\ i' = i + 1
    /\ UNCHANGED <<ctx, s, running, processes, alive, spawned, started_services,
                   startLog, aborted, quiesced, repeated, saved, reported, exit_status>>
    /\ UNCHANGED <<registry, pool, health, batch, bench, suite, analysis>>

\* The gate of line 456 with the health checks consulted as well.
PairEnabled_healthy(tech1, tech2) ==
    \A k \in {tech1, tech2} :
        /\ k \in Range(started_services)
        /\ k \in DOMAIN results.technologies
        /\ results.technologies[k]["health_check"].passed

\* Line 456: tech1 in started_services and tech2 in started_services.
PairEnabled(tech1, tech2) ==
    tech1 \in Range(started_services) /\ tech2 \in Range(started_services)

\* PairSkipped that enters the pair in communication_tests as skipped.
PairSkipped_recorded(r, n) ==
    [r EXCEPT !.keys = @ \cup {"communication_tests"},
              !.communication_tests = (n :> [skipped |-> TRUE]) @@ @]

\* Lines 456-473: the if of line 456 has no else branch; the results are not
\* touched for pair n when the gate is closed.
PairSkipped(r, n) == r

\* Lines 455-476: one turn of the loop over communication_pairs, or its end
\* and the call of stop_all_services.
Communication ==
    /\ pc = "comm"
    /\ IF i > Len(communication_pairs) \/ ~running
       THEN /\ pc' = "stop_check"
            /\ ctx' = "final"
            /\ s' = 1
            /\ repeated' = quiesced
            /\ i' = i
            /\ ops' = <<>>
            /\ UNCHANGED <<results, faults>>
       ELSE LET tech1 == communication_pairs[i][1]
                tech2 == communication_pairs[i][2]
            IN /\ pc' = "comm"
               /\ i' = i + 1
               /\ UNCHANGED <<ctx, s, repeated>>
               /\ IF PairEnabled(tech1, tech2)
                  THEN \E ok \in BOOLEAN :
                        /\ ~ok => tech1 \in alive
                        /\ Fault(~ok)
                        /\ LET comm_result == test_service_communication(tech1, tech2, ok)
                               r == Counted(results, comm_result)
                           IN results' =
                                [r EXCEPT !.keys = @ \cup {"communication_tests"},
                                          !.communication_tests =
                                              (i :> [passed |-> comm_result]) @@ @]
                        /\ ops' = <<Op("communication", tech1)>>
                  ELSE /\ ops' = <<>>
                       /\ results' = PairSkipped(results, i)
                       /\ UNCHANGED faults
    /\ UNCHANGED <<running, processes, alive, spawned, started_services, tech_results,
                   startLog, aborted, quiesced, saved, reported, exit_status>>
    /\ UNCHANGED <<registry, pool, health, batch, bench, suite, analysis>>

----
\* stop_service, stop_all_services, the signal handler

\* StopAllNext whose loop starts over when it has run out of entries.
StopAllNext_again ==
    /\ pc = "stop_check"
    /\ ops' = <<>>
    /\ LET todo == {n \in s..Len(stop_order) : stop_order[n] \in processes} IN
       IF todo = {}
       THEN /\ pc' = "stop_check"
            /\ s' = 1
            /\ UNCHANGED <<quiesced, exit_status>>
       ELSE /\ pc' = "stop_call"
            /\ s' = CHOOSE n \in todo : \A m \in todo : n <= m
            /\ UNCHANGED <<quiesced, exit_status>>
    /\ UNCHANGED <<ctx, i, running, processes, alive, spawned, started_services,
                   results, tech_results, startLog, faults, aborted, repeated,
                   saved, reported>>
    /\ UNCHANGED <<registry, pool, health, batch, bench, suite, analysis>>

\* StopAllNext that passes over the services start_service did not report
\* as started.
StopAllNext_started ==
    /\ pc = "stop_check"
    /\ ops' = <<>>
    /\ LET todo == {n \in s..Len(stop_order) :
                    stop_order[n] \in processes \cap Range(started_services)} IN
       IF todo = {}
       THEN /\ quiesced' = TRUE
            /\ pc' = CASE ctx = "abort" -> "returned"
                       [] ctx = "final" -> "finalize"
                       [] OTHER -> "exited"
            /\ exit_status' = IF ctx = "except" THEN 1 ELSE exit_status
            /\ s' = Len(stop_order) + 1
       ELSE /\ pc' = "stop_call"
            /\ s' = CHOOSE n \in todo : \A m \in todo : n <= m
            /\ UNCHANGED <<quiesced, exit_status>>
    /\ UNCHANGED <<ctx, i, running, processes, alive, spawned, started_services,
                   results, tech_results, startLog, faults, aborted, repeated,
                   saved, reported>>
    /\ UNCHANGED <<registry, pool, health, batch, bench, suite, analysis>>

\* Lines 252-253: the loop moves on to the next entry of stop_order that is in
\* self.processes; when none is left stop_all_services returns to its caller.
StopAllNext ==
    /\ pc = "stop_check"
    /\ ops' = <<>>
    /\ LET todo == {n \in s..Len(stop_order) : stop_order[n] \in processes} IN
       IF todo = {}
       THEN /\ quiesced' = TRUE
            /\ pc' = CASE ctx = "abort" -> "returned"
                       [] ctx = "final" -> "finalize"
                       [] OTHER -> "exited"
            /\ exit_status' = IF ctx = "except" THEN 1 ELSE exit_status
            /\ s' = Len(stop_order) + 1
       ELSE /\ pc' = "stop_call"
            /\ s' = CHOOSE n \in todo : \A m \in todo : n <= m
            /\ UNCHANGED <<quiesced, exit_status>>
    /\ UNCHANGED <<ctx, i, running, processes, alive, spawned, started_services,
                   results, tech_results, startLog, faults, aborted, repeated,
                   saved, reported>>
    /\ UNCHANGED <<registry, pool, health, batch, bench, suite, analysis>>

\* stop_service that sends SIGKILL where the code sends SIGTERM.
StopCall_kill ==
    /\ pc = "stop_call"
    /\ LET k == stop_order[s] IN
       IF k \notin processes
       THEN /\ ops' = <<Op("stop_service", k), Op("stop_ok", k)>>
            /\ pc' = "stop_check"
            /\ s' = s + 1
       ELSE /\ ops' = <<Op("stop_service", k), Op("kill", k)>>
            /\ pc' = "stop_wait"
            /\ s' = s
    /\ UNCHANGED <<ctx, i, running, processes, alive, spawned, started_services,
                   results, tech_results, startLog, faults, aborted, quiesced,
                   repeated, saved, reported, exit_status>>
    /\ UNCHANGED <<registry, pool, health, batch, bench, suite, analysis>>

\* Lines 206-216: the membership test of stop_service and process.terminate().
StopCall ==
    /\ pc = "stop_call"
    /\ LET k == stop_order[s] IN
       IF k \notin processes
       THEN /\ ops' = <<Op("stop_service", k), Op("stop_ok", k)>>
            /\ pc' = "stop_check"
            /\ s' = s + 1
       ELSE /\ ops' = <<Op("stop_service", k), Op("terminate", k)>>
            /\ pc' = "stop_wait"
            /\ s' = s
    /\ UNCHANGED <<ctx, i, running, processes, alive, spawned, started_services,
                   results, tech_results, startLog, faults, aborted, quiesced,
                   repeated, saved, reported, exit_status>>
    /\ UNCHANGED <<registry, pool, health, batch, bench, suite, analysis>>

\* StopWait without the del: the entry stays in the process table.
StopWait_keep ==
    /\ pc = "stop_wait"
    /\ LET k == stop_order[s] IN
       \E slow \in BOOLEAN :
            /\ slow => k \in alive
            /\ Fault(slow)
            /\ ops' = (IF slow THEN <<Op("kill", k)>> ELSE <<>>) \o <<Op("stop_ok", k)>>
            /\ alive' = alive \ {k}
    /\ pc' = "stop_check"
    /\ s' = s + 1
    /\ UNCHANGED <<ctx, i, running, processes, spawned, started_services, results,
                   tech_results, startLog, aborted, quiesced, repeated, saved,
                   reported, exit_status>>
    /\ UNCHANGED <<registry, pool, health, batch, bench, suite, analysis>>

\* Lines 218-232: wait(timeout=10), kill and wait on a timeout, then the del.
\* del raises KeyError when the handler removed the entry in the meantime.
StopWait ==
    /\ pc = "stop_wait"
    /\ LET k == stop_order[s] IN
       \E slow \in BOOLEAN :
            /\ slow => k \in alive
            /\ Fault(slow)
            /\ ops' = (IF slow THEN <<Op("kill", k)>> ELSE <<>>) \o
                      <<Op(IF k \in processes THEN "stop_ok" ELSE "stop_fail", k)>>
            /\ alive' = alive \ {k}
            /\ processes' = processes \ {k}
    /\ pc' = "stop_check"
    /\ s' = s + 1
    /\ UNCHANGED <<ctx, i, running, spawned, started_services, results, tech_results,
                   startLog, aborted, quiesced, repeated, saved, reported, exit_status>>
    /\ UNCHANGED <<registry, pool, health, batch, bench, suite, analysis>>

RECURSIVE StopAllOps(_, _, _)
\* What one uninterrupted stop_all_services pass does, entry by entry of order.
StopAllOps(order, procs, slow) ==
    IF order = <<>> THEN <<>>
    ELSE LET k == Head(order) IN
         (IF k \in procs
          THEN <<Op("stop_service", k), Op("terminate", k)>> \o
               (IF k \in slow THEN <<Op("kill", k)>> ELSE <<>>) \o
               <<Op("stop_ok", k)>>
          ELSE <<>>) \o StopAllOps(Tail(order), procs, slow)

\* Lines 151-155, run between two steps of the main flow.
SignalHandler ==
    /\ pc # "exited"
    /\ running' = FALSE
    /\ \E slow \in SUBSET (processes \cap alive) :
            /\ Cardinality(slow) <= MaxFaults - faults
            /\ faults' = faults + Cardinality(slow)
            /\ ops' = <<Op("signal", "")>> \o StopAllOps(stop_order, processes, slow)
    /\ processes' = processes \ Range(stop_order)
    /\ alive' = alive \ (processes \cap Range(stop_order))
    /\ quiesced' = TRUE
    /\ UNCHANGED <<pc, ctx, i, s, spawned, started_services, results, tech_results,
                   startLog, aborted, repeated, saved, reported, exit_status>>
    /\ UNCHANGED <<registry, pool, health, batch, bench, suite, analysis>>

----
\* The end of run_integration_tests and main

\* Finalize that rates a run without any check at 100 percent.
Finalize_emptypass ==
    /\ pc = "finalize"
    /\ LET success_rate == IF results.total_tests > 0
                           THEN (results.passed_tests * 10000) \div results.total_tests
                           ELSE 10000
       IN results' = [results EXCEPT !.keys = @ \cup {"success_rate", "overall_passed"},
                                     !.success_rate = success_rate,
                                     !.overall_passed = success_rate >= 9000]
    /\ pc' = "returned"
    /\ ops' = <<>>
    /\ UNCHANGED <<ctx, i, s, running, processes, alive, spawned, started_services,
                   tech_results, startLog, faults, aborted, quiesced, repeated,
                   saved, reported, exit_status>>
    /\ UNCHANGED <<registry, pool, health, batch, bench, suite, analysis>>

\* Finalize that divides without looking at total_tests: with no check made
\* the division raises and the exception leaves run_integration_tests.
Finalize_unguarded ==
    /\ pc = "finalize"
    /\ ops' = <<>>
    /\ IF results.total_tests > 0
       THEN /\ LET success_rate == (results.passed_tests * 10000) \div results.total_tests
               IN results' = [results EXCEPT
                                !.keys = @ \cup {"success_rate", "overall_passed"},
                                !.success_rate = success_rate,
                                !.overall_passed = success_rate >= 9000]
            /\ pc' = "returned"
            /\ UNCHANGED <<ctx, s, repeated, exit_status>>
       ELSE /\ pc' = "stop_check"
            /\ ctx' = "except"
            /\ s' = 1
            /\ repeated' = quiesced
            /\ UNCHANGED <<results, exit_status>>
    /\ UNCHANGED <<i, running, processes, alive, spawned, started_services,
                   tech_results, startLog, faults, aborted, quiesced,
                   saved, reported>>
    /\ UNCHANGED <<registry, pool, health, batch, bench, suite, analysis>>

\* Lines 478-489.  success_rate is kept in hundredths of a percent.
Finalize ==
    /\ pc = "finalize"
    /\ LET success_rate == IF results.total_tests > 0
                           THEN (results.passed_tests * 10000) \div results.total_tests
                           ELSE 0
       IN results' = [results EXCEPT !.keys = @ \cup {"success_rate", "overall_passed"},
                                     !.success_rate = success_rate,
                                     !.overall_passed = success_rate >= 9000]
    /\ pc' = "returned"
    /\ ops' = <<>>
    /\ UNCHANGED <<ctx, i, s, running, processes, alive, spawned, started_services,
                   tech_results, startLog, faults, aborted, quiesced, repeated,
                   saved, reported, exit_status>>
    /\ UNCHANGED <<registry, pool, health, batch, bench, suite, analysis>>

\* MainAfterRun that exits with status 0 whatever the verdict.
MainAfterRun_zero ==
    /\ pc = "returned"
    /\ saved' = TRUE
    /\ ops' = <<>>
    /\ IF "success_rate" \in results.keys
       THEN /\ reported' = TRUE
            /\ exit_status' = 0
            /\ pc' = "exited"
            /\ UNCHANGED <<ctx, s, repeated>>
       ELSE /\ pc' = "stop_check"
            /\ ctx' = "except"
            /\ s' = 1
            /\ repeated' = quiesced
            /\ UNCHANGED <<reported, exit_status>>
    /\ UNCHANGED <<i, running, processes, alive, spawned, started_services, results,
                   tech_results, startLog, faults, aborted, quiesced>>
    /\ UNCHANGED <<registry, pool, health, batch, bench, suite, analysis>>

\* Lines 555-585: save_results, generate_report (which reads
\* results['success_rate']), the summary and sys.exit, or the except branch.
MainAfterRun ==
    /\ pc = "returned"
    /\ saved' = TRUE
    /\ ops' = <<>>
    /\ IF "success_rate" \in results.keys
       THEN /\ reported' = TRUE
            /\ exit_status' = IF results.overall_passed THEN 0 ELSE 1
            /\ pc' = "exited"
            /\ UNCHANGED <<ctx, s, repeated>>
       ELSE /\ pc' = "stop_check"
            /\ ctx' = "except"
            /\ s' = 1
            /\ repeated' = quiesced
            /\ UNCHANGED <<reported, exit_status>>
    /\ UNCHANGED <<i, running, processes, alive, spawned, started_services, results,
                   tech_results, startLog, faults, aborted, quiesced>>
    /\ UNCHANGED <<registry, pool, health, batch, bench, suite, analysis>>

Next ==
    \/ StartSpawn
    \/ StartPoll
    \/ ProbeHealth
    \/ ProbePerformance
    \/ ProbeStress
    \/ Communication
    \/ StopAllNext
    \/ StopCall
    \/ StopWait
    \/ SignalHandler
    \/ Finalize
    \/ MainAfterRun

Spec == Init /\ [][Next]_vars

\* The steps of the main flow.  Each of them ends: the sleeps are finite,
\* every request has a timeout (lines 263, 285, 303, 329), wait has one
\* (line 220) and the wait after kill (line 224) returns when the killed
\* process has exited; a signal handler returns into the step it interrupted.
MainFlow ==
    \/ StartSpawn
    \/ StartPoll
    \/ ProbeHealth
    \/ ProbePerformance
    \/ ProbeStress
    \/ Communication
    \/ StopAllNext
    \/ StopCall
    \/ StopWait
    \/ Finalize
    \/ MainAfterRun

\* The run in which the interpreter keeps executing the main flow, however
\* many signals arrive.
SpecLive == Init /\ [][Next]_vars /\ WF_vars(MainFlow)

----
\* stop_service when the operating system refuses the signal

\* Lines 228-232 without the except clause: the error leaves
\* stop_all_services and ends the program.
StopRaise_abort ==
    /\ pc = "stop_call"
    /\ stop_order[s] \in processes
    /\ Fault(TRUE)
    /\ ops' = <<Op("stop_service", stop_order[s]), Op("stop_fail", stop_order[s])>>
    /\ pc' = "exited"
    /\ exit_status' = 1
    /\ UNCHANGED <<ctx, i, s, running, processes, alive, spawned, started_services,
                   results, tech_results, startLog, aborted, quiesced,
                   repeated, saved, reported>>
    /\ UNCHANGED <<registry, pool, health, batch, bench, suite, analysis>>

\* StopRaise that deletes the entry although the stop failed.
StopRaise_drop ==
    /\ pc = "stop_call"
    /\ stop_order[s] \in processes
    /\ Fault(TRUE)
    /\ ops' = <<Op("stop_service", stop_order[s]), Op("stop_fail", stop_order[s])>>
    /\ processes' = processes \ {stop_order[s]}
    /\ pc' = "stop_check"
    /\ s' = s + 1
    /\ UNCHANGED <<ctx, i, running, alive, spawned, started_services,
                   results, tech_results, startLog, aborted, quiesced,
                   repeated, saved, reported, exit_status>>
    /\ UNCHANGED <<registry, pool, health, batch, bench, suite, analysis>>

\* Lines 214-216 and 228-232: process.terminate() raises OSError (os.kill
\* refused); the except clause logs it and stop_service returns False with
\* the entry still in self.processes.  The for loop of stop_all_services,
\* which ignores the return value, goes on.
StopRaise ==
    /\ pc = "stop_call"
    /\ stop_order[s] \in processes
    /\ Fault(TRUE)
    /\ ops' = <<Op("stop_service", stop_order[s]), Op("stop_fail", stop_order[s])>>
    /\ pc' = "stop_check"
    /\ s' = s + 1
    /\ UNCHANGED <<ctx, i, running, processes, alive, spawned, started_services,
                   results, tech_results, startLog, aborted, quiesced,
                   repeated, saved, reported, exit_status>>
    /\ UNCHANGED <<registry, pool, health, batch, bench, suite, analysis>>

\* The run on a system where terminate can fail.
NextStopFaults ==
    \/ StartSpawn
    \/ StartPoll
    \/ ProbeHealth
    \/ ProbePerformance
    \/ ProbeStress
    \/ Communication
    \/ StopAllNext
    \/ StopCall
    \/ StopRaise
    \/ StopWait
    \/ SignalHandler
    \/ Finalize
    \/ MainAfterRun

SpecStopFaults == Init /\ [][NextStopFaults]_vars

----
\* The thread pool of run_stress_test
\*
\* pool.queue counts the work items no worker has taken, pool.inflight the
\* requests sent and not yet answered, pool.ok and pool.failed the True and
\* False entries of the results list, which as_completed fills in the order
\* the requests finish; only its sum and its length are read afterwards.

\* The runner's variables, which a stress test leaves alone.
runner == <<pc, ctx, i, s, running, processes, alive, spawned, started_services,
            results, tech_results, startLog, ops, faults, aborted, quiesced,
            repeated, saved, reported, exit_status, registry>>

\* Lines 335-337: the executor is created and the 50 work items are
\* submitted.  submit starts a thread when no worker is idle and fewer than
\* max_workers exist, so between 1 and max_workers threads serve the queue.
StressSubmit ==
    /\ pool.state = "none"
    /\ \E w \in 1..max_workers :
            pool' = [pool EXCEPT !.state = "running", !.workers = w,
                                 !.queue = StressRequests]
    /\ UNCHANGED <<runner, health, batch, bench, suite, analysis>>

\* StressSend by a pool that starts a thread for every work item.
StressSend_unbounded ==
    /\ pool.state = "running"
    /\ pool.queue > 0
    /\ pool' = [pool EXCEPT !.queue = @ - 1, !.inflight = @ + 1]
    /\ UNCHANGED <<runner, health, batch, bench, suite, analysis>>

\* Lines 325-329: a worker that runs no work item takes one from the queue
\* and send_request issues its GET.
StressSend ==
    /\ pool.state = "running"
    /\ pool.queue > 0
    /\ pool.inflight < pool.workers
    /\ pool' = [pool EXCEPT !.queue = @ - 1, !.inflight = @ + 1]
    /\ UNCHANGED <<runner, health, batch, bench, suite, analysis>>

\* StressReply where the exception of a request is not caught: it comes out
\* of future.result() and run_stress_test returns the error dict.
StressReply_abort ==
    /\ pool.state = "running"
    /\ pool.inflight > 0
    /\ \E answer \in {"200", "other status", "exception"} :
            pool' = IF answer = "200"
                    THEN [pool EXCEPT !.inflight = @ - 1, !.ok = @ + 1]
                    ELSE [pool EXCEPT !.inflight = @ - 1, !.failed = @ + 1,
                                      !.state = "returned",
                                      !.result = [error |-> TRUE]]
    /\ UNCHANGED <<runner, health, batch, bench, suite, analysis>>

\* Lines 325-332 and 338: a request ends with status 200, with another
\* status, or with an exception (connection refused, timeout), which
\* send_request turns into False; as_completed hands the outcome to the
\* results list.
StressReply ==
    /\ pool.state = "running"
    /\ pool.inflight > 0
    /\ \E answer \in {"200", "other status", "exception"} :
            pool' = IF answer = "200"
                    THEN [pool EXCEPT !.inflight = @ - 1, !.ok = @ + 1]
                    ELSE [pool EXCEPT !.inflight = @ - 1, !.failed = @ + 1]
    /\ UNCHANGED <<runner, health, batch, bench, suite, analysis>>

\* Lines 338-347: as_completed is exhausted once every future is done; the
\* with block joins the workers and the dict is built and returned.
StressReturn ==
    /\ pool.state = "running"
    /\ pool.ok + pool.failed = StressRequests
    /\ pool' = [pool EXCEPT !.state = "returned",
                            !.result = StressResult(pool.ok, pool.ok + pool.failed)]
    /\ UNCHANGED <<runner, health, batch, bench, suite, analysis>>

NextStress ==
    \/ StressSubmit
    \/ StressSend
    \/ StressReply
    \/ StressReturn

\* One call of run_stress_test.
SpecStress == Init /\ [][NextStress]_vars

----
\* check_service_health, reply by reply

\* The replies a health request can end with: a response with a status code,
\* or a RequestException.
StatusCodes == {200, 201, 202, 204, 301, 400, 404, 500, 503}
TransportErrors == {"ConnectionError", "Timeout"}
Replies == {<<"status", c>> : c \in StatusCodes} \cup
           {<<"exception", e>> : e \in TransportErrors}

\* HealthResult that takes every status from 200 to 299 for healthy.
HealthResult_2xx(reply) ==
    IF reply[1] = "status"
    THEN IF reply[2] \in 200..299
         THEN <<TRUE, "response.text">>
         ELSE <<FALSE, <<"HTTP", reply[2]>>>>
    ELSE <<FALSE, reply[2]>>

\* Lines 266-272: the tuple check_service_health returns for a reply.  The
\* message is the body for status 200, "HTTP <code>" for another status and
\* str(e) for a RequestException.
HealthResult(reply) ==
    IF reply[1] = "status"
    THEN IF reply[2] = 200
         THEN <<TRUE, "response.text">>
         ELSE <<FALSE, <<"HTTP", reply[2]>>>>
    ELSE <<FALSE, reply[2]>>

\* Lines 258-264: the GET to the health endpoint of tech_key.
HealthRequest ==
    /\ health.state = "none"
    /\ \E tech_key \in Keys :
            health' = [health EXCEPT !.state = "sent", !.key = tech_key]
    /\ UNCHANGED <<runner, pool, batch, bench, suite, analysis>>

\* Lines 266-272: the request ends and check_service_health returns.
HealthReturn ==
    /\ health.state = "sent"
    /\ \E reply \in Replies :
            health' = [health EXCEPT !.state = "returned", !.reply = reply,
                                     !.result = HealthResult(reply)]
    /\ UNCHANGED <<runner, pool, batch, bench, suite, analysis>>

NextHealth ==
    \/ HealthRequest
    \/ HealthReturn

\* One call of check_service_health.
SpecHealth == Init /\ [][NextHealth]_vars

----
\* run_stress_test, future by future
\*
\* The 50 futures are told apart here by their place in the list of line 337,
\* and the list of line 338 is kept in the order as_completed yields them.

\* How many times in one batch a future may complete while a future
\* submitted before it is still pending.
MaxOvertakes == 2

\* The places in the batch at which a request may fail: the first two, the
\* first one that has to wait for a free worker, and the last.
FailPositions == {1, 2, max_workers + 1, StressRequests}

RECURSIVE sum_untilfalse(_)
\* A sum that stops at the first False of the list.
sum_untilfalse(seq) ==
    IF seq = <<>> \/ ~Head(seq) THEN 0 ELSE 1 + sum_untilfalse(Tail(seq))

RECURSIVE sum(_)
\* Lines 340 and 344: Python's sum over the list of booleans, True counting 1.
sum(seq) ==
    IF seq = <<>> THEN 0 ELSE (IF Head(seq) THEN 1 ELSE 0) + sum(Tail(seq))

\* The futures a worker has taken up: with max_workers threads, the first
\* max_workers pending ones of the queue.
Taken(done) ==
    1..(IF Cardinality(done) + max_workers < StressRequests
        THEN Cardinality(done) + max_workers
        ELSE StressRequests)

\* Line 337: the 50 submits; which requests will fail is the environment's
\* choice.
FutureSubmit ==
    /\ batch.state = "none"
    /\ \E failing \in SUBSET FailPositions :
            batch' = [batch EXCEPT
                        !.state = "running",
                        !.outcome = [j \in 1..StressRequests |-> j \notin failing]]
    /\ UNCHANGED <<runner, pool, health, bench, suite, analysis>>

\* Line 338: as_completed yields the next finished future, whichever it is,
\* and its result is appended to the list.
FutureCompleted ==
    /\ batch.state = "running"
    /\ \E j \in Taken(batch.done) \ batch.done :
            LET overtakes == IF (1..(j - 1)) \subseteq batch.done THEN 0 ELSE 1 IN
            /\ batch.overtakes + overtakes <= MaxOvertakes
            /\ batch' = [batch EXCEPT !.done = @ \cup {j},
                                      !.results = Append(@, batch.outcome[j]),
                                      !.overtakes = @ + overtakes]
    /\ UNCHANGED <<runner, pool, health, bench, suite, analysis>>

\* Lines 340-347, once as_completed is exhausted.
FutureAggregate ==
    /\ batch.state = "running"
    /\ batch.done = 1..StressRequests
    /\ batch' = [batch EXCEPT
                    !.state = "returned",
                    !.result = StressResult(sum(batch.results), Len(batch.results))]
    /\ UNCHANGED <<runner, pool, health, bench, suite, analysis>>

\* One call of run_stress_test.
NextBatch ==
    \/ FutureSubmit
    \/ FutureCompleted
    \/ FutureAggregate

SpecBatch == Init /\ [][NextBatch]_vars

----
\* run_benchmarks.py: run_single_benchmark
\*
\* Times are whole units.  Of the BenchmarkResult only the fields computed
\* from the recorded times and the success count are kept; avg_time and
\* success_rate are in hundredths; std_dev, throughput and the resource
\* usage are left out.

\* Lines 64 and 108: the iteration counts of concurrent_connections and
\* airflow_simulation.
TestIterations == {100, 200}

\* The duration limit ends the loop at the latest in front of this iteration.
MaxRecorded == 101

\* How many requests of one benchmark time out, and how many are answered
\* slowly, once the first requests have ended in any way and in any order.
MaxTimeouts == 2
MaxSlow == 18
MaxShuffled == 3

\* What one request can end with: a timeout after 3 units (an exception), an
\* answer with status 200 after 2 units or after 1 unit.  The service warms
\* up: timeouts come before any answer, slow answers before any fast one.
BenchReplies ==
    {[time |-> 3, status_200 |-> FALSE], [time |-> 2, status_200 |-> TRUE],
     [time |-> 1, status_200 |-> TRUE]}

Occurrences(seq, v) == Cardinality({n \in DOMAIN seq : seq[n] = v})

\* Lines 253-254.
min(seq) == CHOOSE v \in Range(seq) : \A w \in Range(seq) : v <= w
max(seq) == CHOOSE v \in Range(seq) : \A w \in Range(seq) : v >= w

\* sorted that returns the list as it is.
sorted_asis(seq) == seq

\* Line 258: the list in ascending order: its smallest elements, then the
\* rest in ascending order.
RECURSIVE sorted(_)
sorted(seq) ==
    IF seq = <<>> THEN <<>>
    ELSE LET smallest == min(seq) IN
         [n \in 1..Occurrences(seq, smallest) |-> smallest]
            \o sorted(SelectSeq(seq, LAMBDA v : v # smallest))

RECURSIVE total(_)
total(seq) == IF seq = <<>> THEN 0 ELSE Head(seq) + total(Tail(seq))

\* Lines 259-262: int(len * 0.95) and int(len * 0.99) are (len * pct) \div 100
\* in floating point as well for every len up to 20000; Python indexes
\* from 0.
percentile(sorted_times, pct) ==
    LET index == (Len(sorted_times) * pct) \div 100
        last == Len(sorted_times) - 1
    IN sorted_times[(IF index < last THEN index ELSE last) + 1]

\* Lines 250-295.
BenchmarkResult(iterations, times, success_count) ==
    LET sorted_times == sorted(times) IN
    [iterations |-> Len(times),
     avg_time |-> IF times # <<>> THEN (total(times) * 100) \div Len(times) ELSE 0,
     min_time |-> IF times # <<>> THEN min(times) ELSE 0,
     max_time |-> IF times # <<>> THEN max(times) ELSE 0,
     p95_time |-> IF times # <<>> THEN percentile(sorted_times, 95) ELSE 0,
     p99_time |-> IF times # <<>> THEN percentile(sorted_times, 99) ELSE 0,
     success_count |-> success_count,
     success_rate |-> IF iterations > 0 THEN (success_count * 10000) \div iterations
                      ELSE 0]

\* Lines 211-223: the call, with the test configuration it is given.
BenchStart ==
    /\ bench.state = "none"
    /\ \E iterations \in TestIterations :
            bench' = [bench EXCEPT !.state = "running", !.iterations = iterations]
    /\ UNCHANGED <<runner, pool, health, batch, suite, analysis>>

\* BenchIteration that counts an answer with status 200 twice.
BenchIteration_twice ==
    /\ bench.state = "running"
    /\ Len(bench.times) < bench.iterations
    /\ Len(bench.times) < MaxRecorded
    /\ \E reply \in BenchReplies :
            /\ reply.time = 3 =>
                    \/ Len(bench.times) < MaxShuffled
                    \/ /\ Occurrences(bench.times, 3) = Len(bench.times)
                       /\ Len(bench.times) < MaxTimeouts
            /\ reply.time = 2 =>
                    \/ Len(bench.times) < MaxShuffled
                    \/ /\ Occurrences(bench.times, 1) = 0
                       /\ Occurrences(bench.times, 2) < MaxSlow
            /\ bench' = [bench EXCEPT
                            !.times = Append(@, reply.time),
                            !.success_count = IF reply.status_200 THEN @ + 2 ELSE @]
    /\ UNCHANGED <<runner, pool, health, batch, suite, analysis>>

\* Lines 226-248: one iteration that the duration limit lets through.
BenchIteration ==
    /\ bench.state = "running"
    /\ Len(bench.times) < bench.iterations
    /\ Len(bench.times) < MaxRecorded
    /\ \E reply \in BenchReplies :
            /\ reply.time = 3 =>
                    \/ Len(bench.times) < MaxShuffled
                    \/ /\ Occurrences(bench.times, 3) = Len(bench.times)
                       /\ Len(bench.times) < MaxTimeouts
            /\ reply.time = 2 =>
                    \/ Len(bench.times) < MaxShuffled
                    \/ /\ Occurrences(bench.times, 1) = 0
                       /\ Occurrences(bench.times, 2) < MaxSlow
            /\ bench' = [bench EXCEPT
                            !.times = Append(@, reply.time),
                            !.success_count = IF reply.status_200 THEN @ + 1 ELSE @]
    /\ UNCHANGED <<runner, pool, health, batch, suite, analysis>>

\* Lines 226-228 and 250-295: the loop ends, after the last iteration or at
\* the head of any iteration when the duration is used up, and the result is
\* computed.
BenchReturn ==
    /\ bench.state = "running"
    /\ \E cut \in BOOLEAN :
            /\ cut => Len(bench.times) < bench.iterations
            /\ ~cut => Len(bench.times) = bench.iterations
    /\ bench' = [bench EXCEPT
                    !.state = "returned",
                    !.result = BenchmarkResult(bench.iterations, bench.times,
                                               bench.success_count)]
    /\ UNCHANGED <<runner, pool, health, batch, suite, analysis>>

\* One call of run_single_benchmark.
NextBench ==
    \/ BenchStart
    \/ BenchIteration
    \/ BenchReturn

SpecBench == Init /\ [][NextBench]_vars

\* One probe that reports a success rate: a stress test of the integration
\* runner or a benchmark of the benchmark runner.
NextProbe ==
    \/ bench = NoBench /\ NextStress
    \/ pool = NoPool /\ NextBench

SpecProbe == Init /\ [][NextProbe]_vars

----
\* run_benchmarks.py: run_all_benchmarks and run_technology_benchmarks
\*
\* A run_single_benchmark call is one step here, with the number of results
\* collected so far in place of the list.  The benchmark runner installs no
\* signal handler; signals are not part of this model.

\* Lines 58-147: the keys of self.benchmarks in the order of the literal.
benchmark_keys ==
    <<"air-to-air-mesh", "neuro-fcc", "self-adaptive-rotor-blades", "cold-jet",
      "local-gravity-field-navigation", "predictive-airflow-engine",
      "self-healing-avionics-bios", "vortex-shield", "air-swarm-os",
      "star-nav-core">>

\* Lines 61-65: every technology has three tests.
TestsPerTechnology == 3

\* Lines 328-330: run_all_benchmarks is called.
SuiteBegin ==
    /\ suite.pc = "none"
    /\ suite' = [suite EXCEPT !.pc = "start"]
    /\ UNCHANGED <<runner, pool, health, batch, bench, analysis>>

\* Lines 341-345 and 330: what run_all_benchmarks does when
\* run_technology_benchmarks has returned n results, or has raised.
SuiteNext(st, n, raised) ==
    [st EXCEPT !.all_results = (benchmark_keys[st.tech] :> (IF raised THEN 0 ELSE n)) @@ @,
               !.pc = IF st.tech = Len(benchmark_keys) THEN "done" ELSE "start",
               !.tech = IF st.tech = Len(benchmark_keys) THEN @ ELSE @ + 1,
               !.test = 1,
               !.results = 0,
               !.raised = FALSE,
               !.process = ""]

\* Lines 330-334, 299-304 and 159-182: the next technology; start_service
\* checks the executable and spawns the process.
SuiteSpawn ==
    /\ suite.pc = "start"
    /\ \E outcome \in {"spawned", "missing", "launch_error"} :
            suite' = IF outcome = "spawned"
                     THEN [suite EXCEPT !.pc = "start_wait",
                                        !.alive = @ \cup {benchmark_keys[suite.tech]}]
                     ELSE SuiteNext(suite, 0, FALSE)
    /\ UNCHANGED <<runner, pool, health, batch, bench, analysis>>

\* Lines 182-191 and 303-308: after the sleep start_service polls the
\* process; without a process run_technology_benchmarks returns its empty
\* list.
SuitePoll ==
    /\ suite.pc = "start_wait"
    /\ \E exited \in BOOLEAN :
            suite' = IF exited
                     THEN SuiteNext([suite EXCEPT !.alive = @ \ {benchmark_keys[suite.tech]}],
                                    0, FALSE)
                     ELSE [suite EXCEPT !.pc = "tests",
                                        !.process = benchmark_keys[suite.tech]]
    /\ UNCHANGED <<runner, pool, health, batch, bench, analysis>>

\* SuiteBenchmark without the finally clause: an error of a benchmark
\* leaves run_technology_benchmarks at once.
SuiteBenchmark_nofinally ==
    /\ suite.pc = "tests"
    /\ IF suite.test > TestsPerTechnology
       THEN suite' = [suite EXCEPT !.pc = "stop"]
       ELSE \E died, raises \in BOOLEAN :
                LET st == [suite EXCEPT !.alive = IF died THEN @ \ {suite.process} ELSE @] IN
                suite' = IF raises
                         THEN SuiteNext(st, 0, TRUE)
                         ELSE [st EXCEPT !.results = @ + 1, !.test = @ + 1]
    /\ UNCHANGED <<runner, pool, health, batch, bench, analysis>>

\* Lines 311-316: the next test of the technology.  run_single_benchmark
\* returns a result, also when the service has died and every request
\* fails, or raises (psutil.Process at line 218 on a process that is gone);
\* an error, like the end of the loop, leads to the finally clause.
SuiteBenchmark ==
    /\ suite.pc = "tests"
    /\ IF suite.test > TestsPerTechnology
       THEN suite' = [suite EXCEPT !.pc = "stop"]
       ELSE \E died, raises \in BOOLEAN :
                LET st == [suite EXCEPT !.alive = IF died THEN @ \ {suite.process} ELSE @] IN
                suite' = IF raises
                         THEN [st EXCEPT !.pc = "stop", !.raised = TRUE]
                         ELSE [st EXCEPT !.results = @ + 1, !.test = @ + 1]
    /\ UNCHANGED <<runner, pool, health, batch, bench, analysis>>

\* Lines 318-322 and 197-207: the finally clause stops the process
\* (terminate, wait, kill after the timeout); then the results are
\* returned, or the error goes on to the except clause of
\* run_all_benchmarks.
SuiteStop ==
    /\ suite.pc = "stop"
    /\ suite' = SuiteNext([suite EXCEPT !.alive = @ \ {suite.process}],
                          suite.results, suite.raised)
    /\ UNCHANGED <<runner, pool, health, batch, bench, analysis>>

NextSuite ==
    \/ SuiteBegin
    \/ SuiteSpawn
    \/ SuitePoll
    \/ SuiteBenchmark
    \/ SuiteStop

\* One call of run_all_benchmarks.
SpecSuite == Init /\ [][NextSuite]_vars

----
\* analyze_performance.py: analyze_performance
\*
\* Numbers are in hundredths.  Of a PerformanceMetrics record the five
\* fields that analyze_performance can read are kept; the texts of the
\* issues are reduced to the metric they name.

\* Lines 51-122.
performance_targets ==
    [tech \in Range(benchmark_keys) |->
        CASE tech = "air-to-air-mesh" ->
                [latency_ms |-> 5000, throughput_mbps |-> 10000,
                 accuracy_percent |-> 9500, memory_mb |-> 2000, power_w |-> 1500]
          [] tech = "neuro-fcc" ->
                [latency_ms |-> 200, throughput_hz |-> 50000,
                 accuracy_percent |-> 9990, memory_mb |-> 500, power_w |-> 1000]
          [] tech = "self-adaptive-rotor-blades" ->
                [latency_ms |-> 100, throughput_hz |-> 100000,
                 accuracy_percent |-> 9500, memory_mb |-> 1000, power_w |-> 800]
          [] tech = "cold-jet" ->
                [latency_ms |-> 10000, throughput_hz |-> 1000,
                 accuracy_percent |-> 9000, memory_mb |-> 1500, power_w |-> 2500]
          [] tech = "local-gravity-field-navigation" ->
                [latency_ms |-> 20000, throughput_hz |-> 500,
                 accuracy_percent |-> 9200, memory_mb |-> 2500, power_w |-> 2000]
          [] tech = "predictive-airflow-engine" ->
                [latency_ms |-> 5000, throughput_hz |-> 2000,
                 accuracy_percent |-> 9500, memory_mb |-> 1500, power_w |-> 4500]
          [] tech = "self-healing-avionics-bios" ->
                [latency_ms |-> 100000, throughput_hz |-> 100,
                 accuracy_percent |-> 9990, memory_mb |-> 300, power_w |-> 500]
          [] tech = "vortex-shield" ->
                [latency_ms |-> 1000, throughput_hz |-> 10000,
                 accuracy_percent |-> 9950, memory_mb |-> 800, power_w |-> 800]
          [] tech = "air-swarm-os" ->
                [latency_ms |-> 10000, throughput_tps |-> 10000,
                 accuracy_percent |-> 9500, memory_mb |-> 3500, power_w |-> 3500]
          [] tech = "star-nav-core" ->
                [latency_ms |-> 50000, throughput_hz |-> 200,
                 accuracy_percent |-> 9000, memory_mb |-> 3000, power_w |-> 3000]]

\* Lines 27-40: the fields of PerformanceMetrics that have a target.
PerformanceMetrics(latency_ms, throughput_hz, accuracy_percent, memory_mb, power_w) ==
    [latency_ms |-> latency_ms, throughput_hz |-> throughput_hz,
     accuracy_percent |-> accuracy_percent, memory_mb |-> memory_mb,
     power_w |-> power_w]

\* Lines 138-259: the records of collect_performance_data.
simulated_data ==
    [tech \in Range(benchmark_keys) |->
        CASE tech = "air-to-air-mesh" -> PerformanceMetrics(4230, 10520, 9610, 1870, 1420)
          [] tech = "neuro-fcc" -> PerformanceMetrics(180, 51240, 9992, 480, 970)
          [] tech = "self-adaptive-rotor-blades" -> PerformanceMetrics(90, 104780, 9630, 920, 780)
          [] tech = "cold-jet" -> PerformanceMetrics(8740, 1120, 9180, 1430, 2390)
          [] tech = "local-gravity-field-navigation" ->
                PerformanceMetrics(17890, 530, 9270, 2380, 1940)
          [] tech = "predictive-airflow-engine" -> PerformanceMetrics(4370, 2180, 9560, 1470, 4420)
          [] tech = "self-healing-avionics-bios" -> PerformanceMetrics(89230, 110, 9994, 290, 480)
          [] tech = "vortex-shield" -> PerformanceMetrics(870, 10430, 9960, 790, 790)
          [] tech = "air-swarm-os" -> PerformanceMetrics(9240, 10870, 9580, 3420, 3470)
          [] tech = "star-nav-core" -> PerformanceMetrics(46780, 210, 9090, 2940, 2920)]

\* The throughput target of a technology, under whichever key it is given.
throughput_target(targets) ==
    IF "throughput_hz" \in DOMAIN targets THEN targets.throughput_hz
    ELSE IF "throughput_tps" \in DOMAIN targets THEN targets.throughput_tps
    ELSE targets.throughput_mbps

\* The records analyze_performance is called with for a technology: every
\* metric is the collected one, or one hundredth to either side of its
\* target.
MetricsFor(tech) ==
    LET targets == performance_targets[tech]
        around(collected, target) == {collected, target - 1, target + 1}
    IN {PerformanceMetrics(l, t, a, m, p) :
            l \in around(simulated_data[tech].latency_ms, targets.latency_ms),
            t \in around(simulated_data[tech].throughput_hz, throughput_target(targets)),
            a \in around(simulated_data[tech].accuracy_percent, targets.accuracy_percent),
            m \in around(simulated_data[tech].memory_mb, targets.memory_mb),
            p \in around(simulated_data[tech].power_w, targets.power_w)}

\* Lines 263-328.  Each check is skipped without its target; the
\* throughput check reads the attribute of metrics named by the key of the
\* target, and getattr raises AttributeError when there is none.
analyze_performance(metrics, targets) ==
    LET throughput_key == IF "throughput_hz" \in DOMAIN targets
                          THEN "throughput_hz" ELSE "throughput_tps"
        checks ==
            <<[name |-> "Latency", checked |-> "latency_ms" \in DOMAIN targets,
               met |-> "latency_ms" \in DOMAIN targets /\ metrics.latency_ms <= targets.latency_ms],
              [name |-> "Throughput", checked |-> throughput_key \in DOMAIN targets,
               met |-> throughput_key \in DOMAIN targets /\ metrics[throughput_key] >= targets[throughput_key]],
              [name |-> "Accuracy", checked |-> "accuracy_percent" \in DOMAIN targets,
               met |-> "accuracy_percent" \in DOMAIN targets /\ metrics.accuracy_percent >= targets.accuracy_percent],
              [name |-> "Memory", checked |-> "memory_mb" \in DOMAIN targets,
               met |-> "memory_mb" \in DOMAIN targets /\ metrics.memory_mb <= targets.memory_mb],
              [name |-> "Power", checked |-> "power_w" \in DOMAIN targets,
               met |-> "power_w" \in DOMAIN targets /\ metrics.power_w <= targets.power_w]>>
        done == {n \in DOMAIN checks : checks[n].checked}
        total_checks == Cardinality(done)
        score == Cardinality({n \in done : checks[n].met})
        failed == SelectSeq([n \in DOMAIN checks |-> n],
                            LAMBDA n : n \in done /\ ~checks[n].met)
    IN IF throughput_key \in DOMAIN targets /\ throughput_key \notin DOMAIN metrics
       THEN [raised |-> "AttributeError"]
       ELSE [raised |-> "",
             meets_targets |-> IF total_checks > 0 THEN score = total_checks ELSE TRUE,
             performance_score |-> IF total_checks > 0
                                   THEN (score * 10000) \div total_checks ELSE 0,
             issues |-> [n \in DOMAIN failed |-> checks[failed[n]].name],
             improvements |-> [n \in DOMAIN failed |-> checks[failed[n]].name]]

\* Lines 474-475: analyze_performance is called for a technology.
AnalyzeCall ==
    /\ analysis.state = "none"
    /\ \E tech \in DOMAIN performance_targets :
        \E metrics \in MetricsFor(tech) :
            analysis' = [analysis EXCEPT !.state = "called", !.tech = tech,
                                         !.metrics = metrics]
    /\ UNCHANGED <<runner, pool, health, batch, bench, suite>>

\* Lines 263-328: the call returns its analysis or raises.
AnalyzeReturn ==
    /\ analysis.state = "called"
    /\ LET result == analyze_performance(analysis.metrics,
                                         performance_targets[analysis.tech])
       IN analysis' = [analysis EXCEPT
                        !.state = IF result.raised = "" THEN "returned" ELSE "raised",
                        !.result = result]
    /\ UNCHANGED <<runner, pool, health, batch, bench, suite>>

NextAnalysis ==
    \/ AnalyzeCall
    \/ AnalyzeReturn

\* One call of analyze_performance.
SpecAnalysis == Init /\ [][NextAnalysis]_vars

----
\* The run for other registry literals

\* __init__ with any of the registries; everything else is as in Init.
InitRegistry ==
    /\ Constructed
    /\ registry \in DOMAIN Registries
    /\ pool = NoPool
    /\ health = NoHealth
    /\ batch = NoBatch
    /\ bench = NoBench
    /\ suite = NoSuite
    /\ analysis = NoAnalysis

SpecRegistry == InitRegistry /\ [][Next]_vars

----
\* Vocabulary of the properties

\* The main flow is inside a stop_all_services pass.
InStopPass == pc \in {"stop_check", "stop_call", "stop_wait"}

\* run_integration_tests has returned to main.
RunReturned == pc \in {"returned", "exited"} \/ ctx = "except"

\* Every start attempt of the start loop has been resolved without an abort.
StartsResolved == ~aborted /\ pc \notin {"start", "start_wait"}

\* Services whose start_service call returned False.
FailedStarts ==
    LET started == Range(started_services) IN
    {k \in Range(startLog) :
        /\ k \notin started
        /\ ~(pc = "start_wait" /\ start_order[i] = k)}

\* The entries of the process table left when step n of o is reached.
Remaining(o, n) ==
    processes \ {o[m][2] : m \in {x \in DOMAIN o : x < n /\ o[x][1] = "stop_ok"}}

\* start_order lists every registered service once.
StartOrderPermutation ==
    /\ Len(start_order) = Cardinality(Keys)
    /\ Range(start_order) = Keys

\* The position of every service in stop_order.
StopRank == [k \in Keys |-> Index(stop_order, k)]

\* The start_service calls were made in an order that respects dependencies.
StartsTopological ==
    /\ Cardinality(Range(startLog)) = Len(startLog)
    /\ \A n \in DOMAIN startLog :
            \A d \in Dependencies(startLog[n]) : \E m \in 1..(n - 1) : startLog[m] = d

----
\* C1: the start order the orchestrator uses is a permutation of all registered
\* service ids, and start_service is called for a service only after it has been
\* called for every service listed in its dependencies.
C1_StartOrderTopological ==
    /\ StartOrderPermutation
    /\ StartsTopological
    /\ StartsResolved => Range(startLog) = Keys

\* C1 witness: the start loop has run over the whole order, all ten started.
C1_Witness ==
    /\ pc = "probe"
    /\ Len(startLog) = Len(start_order)
    /\ Len(started_services) = Len(start_order)

HealthFailed(k) ==
    \/ k \in DOMAIN results.technologies /\ ~results.technologies[k].health_check.passed
    \/ /\ pc \in {"perf", "stress"}
       /\ started_services[i] = k
       /\ ~tech_results.health_check.passed

C4_CriticalStartFailureAborts ==
    [][LET failed == FailedStarts' IN
       /\ aborted' <=> \E k \in failed : technologies[k].critical
       /\ aborted => startLog' = startLog /\ ~HasOp(ops', "start_service")
       /\ aborted' => /\ startLog'[Len(startLog')] \in failed
                      /\ technologies[startLog'[Len(startLog')]].critical
       /\ aborted' /\ RunReturned' => processes' = {} /\ alive' = {}]_vars

\* C4 witness: vortex-shield failed to start after four services were started,
\* and the run has returned.
C4_Witness ==
    /\ aborted
    /\ pc = "returned"
    /\ "vortex-shield" \in FailedStarts
    /\ Len(started_services) = 4
    /\ HasOp(ops, "stop_ok") \/ ops = <<>>

\* C5 as stated: an aborted run returns a finalized verdict with success_rate
\* and overall_passed = false, and main saves, reports and prints it without
\* entering its except branch.
C5_AbortYieldsVerdict ==
    /\ (aborted \/ ~running) /\ RunReturned =>
            {"success_rate", "overall_passed"} \subseteq results.keys
    /\ aborted /\ RunReturned => ~results.overall_passed
    /\ ctx # "except"
    /\ (aborted \/ ~running) /\ pc = "exited" => saved /\ reported

\* C6: when a run has ended, however it ended, teardown is complete: the
\* process table is empty and no service process is alive.
C6_TeardownComplete ==
    pc = "finalize" \/ RunReturned => processes = {} /\ alive = {}

\* C6 witness: a run cancelled while rotor blades was starting has returned,
\* after all ten services had been spawned.
C6_Witness ==
    /\ pc = "returned"
    /\ ~running
    /\ spawned = Keys
    /\ "self-adaptive-rotor-blades" \in FailedStarts

\* C7 as stated: once the signal has set running to false, start_service is
\* not called again.
C7_NoStartAfterSignal ==
    [][~running => ~HasOp(ops', "start_service")]_vars

\* C8 as stated: once the signal has set running to false, no health,
\* performance, stress or communication request is issued.
C8_NoProbeAfterSignal ==
    [][~running =>
        \A n \in DOMAIN ops' :
            ops'[n][1] \notin {"health", "performance", "stress", "communication"}]_vars

\* C9: the failed start of a non-critical service does not abort the run:
\* start_service is still called for every other service of the start order,
\* and every service that started is probed (unless the run is cancelled).
C9_NonCriticalFailureContinues ==
    LET failed == FailedStarts IN
    (\E k \in failed : ~technologies[k].critical) =>
        /\ aborted => \E k \in failed : technologies[k].critical
        /\ ~aborted =>
            /\ pc \notin {"start", "start_wait"} => Range(startLog) = Keys
            /\ pc \notin {"start", "start_wait"} =>
                    Range(started_services) = Keys \ failed
            /\ running /\ pc \notin {"start", "start_wait", "probe", "perf", "stress"} =>
                    Range(started_services) \subseteq DOMAIN results.technologies

\* C9 witness: air-to-air-mesh, which neuro-fcc depends on, failed to start;
\* the other nine were started and probed, and the run has returned.
C9_Witness ==
    /\ pc = "returned"
    /\ running
    /\ FailedStarts = {"air-to-air-mesh"}
    /\ Len(started_services) = 9
    /\ Range(started_services) = DOMAIN results.technologies

\* C10: a stop_all_services pass that begins after a completed pass, with
\* nothing spawned in between, finds the process table empty, sends no
\* terminate or kill and reports no failure; stop_service on a key that is not
\* in the process table changes nothing and reports success.
C10_StopAllIdempotent ==
    [][/\ quiesced' => processes' = {}
       /\ (repeated /\ InStopPass) \/ (quiesced /\ HasOp(ops', "signal")) =>
            /\ \A n \in DOMAIN ops' : ops'[n][1] \notin {"terminate", "kill", "stop_fail"}
            /\ processes' = {}
            /\ alive' = {}
       /\ pc = "stop_call" /\ pc' # "stop_call" /\ stop_order[s] \notin processes =>
            /\ ops' = <<Op("stop_service", stop_order[s]), Op("stop_ok", stop_order[s])>>
            /\ UNCHANGED <<processes, alive>>]_vars

\* C10 witness: main's except branch has run a second pass after the pass of
\* an aborted run that had stopped two processes.
C10_Witness ==
    /\ pc = "exited"
    /\ ctx = "except"
    /\ repeated
    /\ Cardinality(spawned) = 2
    /\ processes = {}

\* C11: stop_all_services is best-effort and total.  A stop_service call of
\* the main flow that fails (terminate refused, or the entry already deleted
\* by the handler) returns into the loop of the same pass, which moves to the
\* next entry of stop_order; the loop passes over an entry only when it is
\* not in the process table, and the pass ends only when no entry from the
\* loop's position on is in the table; every iteration that finds its entry
\* in the table calls stop_service for it.
C11_StopAllBestEffort ==
    [][/\ (pc \in {"stop_call", "stop_wait"} /\ HasOp(ops', "stop_fail")) =>
                pc' = "stop_check" /\ s' = s + 1 /\ ctx' = ctx
       /\ (pc = "stop_check" /\ pc' # "stop_check") =>
                \A n \in s..(IF pc' = "stop_call" THEN s' - 1 ELSE Len(stop_order)) :
                    stop_order[n] \notin processes
       /\ (pc = "stop_call" /\ ~HasOp(ops', "signal")) =>
                ops'[1] = Op("stop_service", stop_order[s])
      ]_vars

\* A failed stop left its entry in the table, and the pass has gone on to
\* send SIGTERM to a later service.
C11_Witness ==
    /\ pc = "stop_wait"
    /\ Op("terminate", stop_order[s]) \in Range(ops)
    /\ \E m \in 1..(s - 1) : stop_order[m] \in processes

\* C12: stop_service sends SIGTERM first and SIGKILL only to a process that
\* was still alive when wait(timeout=10) expired; a SIGKILL is always
\* preceded by the SIGTERM of the same stop_service call; and stop_service
\* returns True only when the process is no longer alive.
C12_GracefulThenKill ==
    [][/\ \A n \in DOMAIN ops' :
            /\ ops'[n][1] = "kill" =>
                    /\ ops'[n][2] \in alive
                    /\ \/ \E m \in 1..(n - 1) : ops'[m] = Op("terminate", ops'[n][2])
                       \/ /\ n = 1
                          /\ pc = "stop_wait"
                          /\ ops'[n][2] = stop_order[s]
            /\ ops'[n][1] = "stop_ok" => ops'[n][2] \notin alive'
       /\ (pc' = "stop_wait" /\ pc # "stop_wait") =>
                ops' = <<Op("stop_service", stop_order[s']),
                         Op("terminate", stop_order[s'])>>
      ]_vars

\* The main flow's stop_service killed a process that ignored SIGTERM for the
\* whole wait and then returned True.
C12_Witness ==
    /\ pc = "stop_check"
    /\ s > 1
    /\ ops = <<Op("kill", stop_order[s - 1]), Op("stop_ok", stop_order[s - 1])>>
    /\ stop_order[s - 1] \in spawned \ alive

\* The declared dependencies of k in registry reg that reg declares.
DeclaredDeps(reg, k) == Range(reg[k].dependencies) \cap DOMAIN reg

RECURSIVE DependsClosure(_, _)
\* The services that the services of S depend on, directly or not.
DependsClosure(reg, S) ==
    LET T == S \cup UNION {DeclaredDeps(reg, k) : k \in S} IN
    IF T = S THEN S ELSE DependsClosure(reg, T)

Cyclic(reg) == \E k \in DOMAIN reg : k \in DependsClosure(reg, DeclaredDeps(reg, k))

Undeclared(reg) == \E k \in DOMAIN reg : ~(Range(reg[k].dependencies) \subseteq DOMAIN reg)

Ready(done) == {k \in Keys \ Range(done) : Dependencies(k) \subseteq Range(done)}

RECURSIVE TieBrokenOrder(_)
\* The topological sort of the registry that, of the ready services, takes
\* the one declared earliest, continued from done.
TieBrokenOrder(done) ==
    IF Ready(done) = {} THEN done
    ELSE LET n == CHOOSE x \in DOMAIN declaration_order :
                    /\ declaration_order[x] \in Ready(done)
                    /\ \A y \in 1..(x - 1) : declaration_order[y] \notin Ready(done)
         IN TieBrokenOrder(Append(done, declaration_order[n]))

\* C14 as stated: the starts follow the topological sort with ties broken by
\* declaration order.
C14_DeclarationOrderTieBreak ==
    \A n \in DOMAIN startLog : startLog[n] = TieBrokenOrder(<<>>)[n]

\* C14: the starts follow one fixed order in every run, start_order, which is
\* a topological order of the registry; among the ready services it does not
\* always take the one declared earliest: once air-to-air-mesh is started,
\* self-healing-avionics-bios is started while neuro-fcc, declared before it,
\* is ready.  Stated of the latest call; every earlier call was the latest
\* one in an earlier state.
C14_FixedTopologicalOrder ==
    startLog # <<>> =>
        LET n == Len(startLog) IN
        /\ startLog[n] = start_order[n]
        /\ startLog[n] \in Ready(SubSeq(startLog, 1, n - 1))
        /\ n = 2 =>
                \E k \in Ready(SubSeq(startLog, 1, 1)) :
                    Index(declaration_order, k) < Index(declaration_order, startLog[2])

\* The second start_service call was made with two services ready.
C14_Witness ==
    /\ Len(startLog) >= 2
    /\ startLog[2] = "self-healing-avionics-bios"
    /\ Ready(SubSeq(startLog, 1, 1)) = {"self-healing-avionics-bios", "neuro-fcc"}

\* C15: the dict run_stress_test returns has success_rate equal to
\* successes / total * 100 over 50 requests and passed exactly when
\* success_rate >= 95, which is exactly when at least 48 of the 50 requests
\* succeeded: 48 successes give 96 and passed, 40 give 80 and not passed.
C15_StressPassMark ==
    pool.state = "returned" =>
        LET r == pool.result IN
        /\ r.successful_requests = pool.ok
        /\ r.success_rate * 50 = pool.ok * 100
        /\ r.passed <=> r.success_rate >= 95
        /\ r.passed <=> pool.ok >= 48
        /\ pool.ok = 48 => r.success_rate = 96 /\ r.passed
        /\ pool.ok = 40 => r.success_rate = 80 /\ ~r.passed

\* run_stress_test returned after exactly 48 requests succeeded.
C15_Witness ==
    /\ pool.state = "returned"
    /\ pool.ok = 48
    /\ pool.failed = 2
    /\ pool.result.passed

\* C16: a request that fails or times out is one False in the results list
\* and the batch goes on: run_stress_test returns only when all 50 requests
\* have been issued and have ended, its dict is never the error dict, and
\* total_requests is 50 whatever the number of failures.
C16_FailuresCountedBatchCompletes ==
    /\ pool.ok + pool.failed + pool.inflight + pool.queue
            = (IF pool.state = "none" THEN 0 ELSE StressRequests)
    /\ pool.state = "returned" =>
            /\ pool.queue = 0
            /\ DOMAIN pool.result =
                    {"total_requests", "successful_requests", "success_rate", "passed"}
            /\ pool.result.total_requests = 50
            /\ pool.result.successful_requests = 50 - pool.failed

\* run_stress_test returned after every one of its requests failed.
C16_Witness ==
    /\ pool.state = "returned"
    /\ pool.failed = StressRequests
    /\ pool.result.total_requests = StressRequests

C18_ProbesPerHealthyService ==
    pc \in {"probe", "perf", "stress", "comm"} =>
        /\ \A k \in DOMAIN results.technologies :
                LET tests == results.technologies[k] IN
                DOMAIN tests = IF tests["health_check"].passed
                               THEN {"health_check", "performance", "stress"}
                               ELSE {"health_check"}
        /\ pc # "comm" =>
                DOMAIN results.technologies = {started_services[n] : n \in 1..(i - 1)}
        /\ pc = "perf" =>
                DOMAIN tech_results = {"health_check"} /\ tech_results["health_check"].passed
        /\ pc = "stress" => DOMAIN tech_results = {"health_check", "performance"}
        /\ (pc = "comm" /\ running) =>
                DOMAIN results.technologies = Range(started_services)

\* The performance probe of one service failed, its stress probe was still
\* run, and every other started service was probed as well.
C18_Witness ==
    /\ pc = "comm"
    /\ running
    /\ Len(started_services) = Len(start_order)
    /\ DOMAIN results.technologies = Range(started_services)
    /\ \E k \in DOMAIN results.technologies :
            /\ DOMAIN results.technologies[k] = {"health_check", "performance", "stress"}
            /\ results.technologies[k]["performance"].error
            /\ Index(started_services, k) < Len(started_services)

\* The step is one pass of the loop over communication_pairs, for pair i.
CommunicationTurn == pc = "comm" /\ pc' = "comm" /\ i' = i + 1

RECURSIVE ProbesRecorded(_)
\* The number of probe outcomes in the entries of results["technologies"]
\* for the services of S.
ProbesRecorded(S) ==
    IF S = {} THEN 0
    ELSE LET k == CHOOSE x \in S : TRUE IN
         Cardinality(DOMAIN results.technologies[k]) + ProbesRecorded(S \ {k})

\* The pairs the communication loop has passed whose endpoints were both
\* started.
PairsExecuted ==
    {n \in 1..(i - 1) :
        {communication_pairs[n][1], communication_pairs[n][2]}
            \subseteq Range(started_services)}

Finalized == {"success_rate", "overall_passed"} \subseteq results.keys

\* C21 as stated: in a finalized verdict overall_passed holds exactly when
\* success_rate >= 90, which is exactly when passed*100 >= 90*total.
C21_VerdictRule ==
    Finalized =>
        /\ results.overall_passed <=> results.success_rate >= 9000
        /\ results.overall_passed <=>
                results.passed_tests * 100 >= 90 * results.total_tests

\* C21: in a finalized verdict overall_passed holds exactly when
\* success_rate >= 90.  When at least one check was made, success_rate is
\* passed / total * 100 (here in hundredths of a percent, rounded down) and
\* overall_passed holds exactly when passed*100 >= 90*total; when no check
\* was made, success_rate is 0 and overall_passed is false.
C21_VerdictRuleNonEmpty ==
    Finalized =>
        /\ results.overall_passed <=> results.success_rate >= 9000
        /\ results.total_tests > 0 =>
                /\ results.success_rate * results.total_tests
                        <= results.passed_tests * 10000
                /\ results.passed_tests * 10000
                        < (results.success_rate + 1) * results.total_tests
                /\ results.overall_passed <=>
                        results.passed_tests * 100 >= 90 * results.total_tests
        /\ results.total_tests = 0 =>
                results.success_rate = 0 /\ ~results.overall_passed

\* A run cancelled before its first health check was finalized without
\* any check made.
C21_Witness ==
    /\ pc = "returned"
    /\ Finalized
    /\ ~running
    /\ results.total_tests = 0
    /\ ~results.overall_passed

\* C22: the exit status of main is 0 exactly when the run produced a verdict
\* whose overall_passed is true, and 1 in every other run that has exited;
\* the program has no exit status before.
C22_ExitStatusReflectsVerdict ==
    /\ pc = "exited" =>
            /\ exit_status \in {0, 1}
            /\ exit_status = 0 <=> (Finalized /\ results.overall_passed)
    /\ pc # "exited" => exit_status = -1

\* A run with one failed check out of 34 passed and main exited with 0.
C22_Witness ==
    /\ pc = "exited"
    /\ exit_status = 0
    /\ results.failed_tests = 1
    /\ results.overall_passed

\* C23: every run terminates.  With every request returning or timing out
\* and every signalled process exiting, run_integration_tests reaches its
\* end and main exits, whatever faults and signals occur on the way.
C23_RunTerminates == <>(pc = "exited")

\* A run that was cancelled by a signal and had to kill a process has exited.
C23_Witness ==
    /\ pc = "exited"
    /\ ~running
    /\ faults = MaxFaults
    /\ spawned # {}
    /\ alive = {}

C25_StartReportsAlive ==
    [][/\ (pc = "start_wait" /\ pc' # "start_wait") =>
                LET k == start_order[i] IN
                /\ k \in spawned
                /\ (started_services' = Append(started_services, k)) <=> k \in alive'
                /\ k \notin alive' => started_services' = started_services
       /\ (pc = "start" /\ startLog' # startLog) =>
                LET k == start_order[i] IN
                IF HasOp(ops', "spawn")
                THEN /\ pc' = "start_wait"
                     /\ k \in processes' /\ k \in alive'
                     /\ started_services' = started_services
                ELSE /\ pc' # "start_wait"
                     /\ started_services' = started_services
                     /\ processes' = processes
                     /\ spawned' = spawned
                     /\ alive' = alive
      ]_vars

\* air-to-air-mesh exited during its startup sleep and start_service
\* returned False for it; the loop is at the next service.
C25_Witness ==
    /\ pc = "start"
    /\ i = 2
    /\ running
    /\ "air-to-air-mesh" \in spawned \ alive
    /\ started_services = <<>>

\* The phase of run_integration_tests a state belongs to.  The pass of
\* stop_all_services that the signal handler runs is nested in the phase it
\* interrupts; "finalize" is the point where the final pass has ended and
\* the verdict is still to be computed.
Phase ==
    CASE ctx \in {"abort", "except"} -> "Aborting"
      [] ctx = "final" /\ pc \in {"returned", "exited"} -> "Done"
      [] ctx = "final" -> "TearingDown"
      [] pc = "comm" -> "Communicating"
      [] pc \in {"probe", "perf", "stress"} -> "Probing"
      [] pc = "start" /\ startLog = <<>> -> "Idle"
      [] OTHER -> "Starting"

PhaseRank(p) ==
    CASE p = "Idle" -> 0
      [] p = "Starting" -> 1
      [] p = "Probing" -> 2
      [] p = "Communicating" -> 3
      [] p = "TearingDown" -> 4
      [] p = "Done" -> 5
      [] OTHER -> 6

\* C26: the phases of a run follow one another in the order Idle, Starting,
\* Probing, Communicating, TearingDown, Done, one at a time, and the only
\* other step is the one into Aborting, which is never left.  Health,
\* performance and stress requests are issued only in Probing, when
\* start_service has been called and has returned for every service of the
\* start order; communication requests only in Communicating; the final
\* stop pass begins when the communication loop has ended, and the verdict
\* is computed by the step that ends TearingDown.
C26_PhaseOrder ==
    [][/\ \/ Phase' = Phase
          \/ PhaseRank(Phase') = PhaseRank(Phase) + 1 /\ Phase' # "Aborting"
          \/ Phase' = "Aborting" /\ Phase \in {"Idle", "Starting"}
       /\ (HasOp(ops', "health") \/ HasOp(ops', "performance") \/ HasOp(ops', "stress")) =>
                /\ Phase = "Probing" /\ Phase' = "Probing"
                /\ Len(startLog) = Len(start_order)
                /\ StartsResolved
       /\ HasOp(ops', "communication") =>
                Phase = "Communicating" /\ Phase' = "Communicating"
       /\ (Phase = "Communicating" /\ Phase' = "TearingDown") =>
                /\ results' = results
                /\ pc' = "stop_check" /\ s' = 1
       /\ (pc = "stop_check" /\ Phase = "TearingDown" /\ pc' = "finalize") =>
                s' > Len(stop_order) /\ results' = results
       /\ Finalized' # Finalized =>
                /\ Phase = "TearingDown" /\ pc = "finalize"
                /\ Phase' = "Done"
                /\ results'.technologies = results.technologies
                /\ results'.communication_tests = results.communication_tests
      ]_vars

\* A run that went through every phase: services were probed, pairs were
\* exercised, the final stop pass ran and the verdict has been computed.
C26_Witness ==
    /\ Phase = "Done"
    /\ Finalized
    /\ DOMAIN results.technologies # {}
    /\ DOMAIN results.communication_tests # {}
    /\ processes = {}

\* C27: an entry of self.processes is made only by the start_service call
\* that spawned the process and is removed only by a stop_service call that
\* returns True after the process has exited; a live process always has its
\* entry.  A stop_service call of the main flow that returns True leaves no
\* entry for its key, and one that returns False leaves the whole table as
\* it found it.
C27_HandleUntilStopConfirmed ==
    [][/\ alive' \subseteq processes' /\ processes' \subseteq spawned'
       /\ \A k \in processes' \ processes : Op("spawn", k) \in Range(ops')
       /\ \A k \in processes \ processes' :
                /\ Op("stop_ok", k) \in Range(ops')
                /\ k \notin alive'
       /\ \A k \in Keys : Op("stop_ok", k) \in Range(ops') => k \notin processes'
       /\ (HasOp(ops', "stop_fail") /\ ~HasOp(ops', "signal")) => processes' = processes
      ]_vars

\* One stop_service call of the final pass returned True and its entry is
\* gone; the next call failed on terminate and its entry, like every other
\* one, is still in the table.
C27_Witness ==
    /\ pc = "stop_check"
    /\ s = 3
    /\ ops = <<Op("stop_service", stop_order[2]), Op("stop_fail", stop_order[2])>>
    /\ stop_order[1] \in spawned \ processes
    /\ processes = spawned \ {stop_order[1]}
    /\ stop_order[2] \in processes

\* The ports of reg are positive and pairwise distinct, every dependency
\* names a service that the dict literal declares earlier, and no service
\* depends on itself through any chain of dependencies.
ValidRegistry(reg) ==
    /\ DOMAIN reg = Range(declaration_order)
    /\ \A k \in DOMAIN reg : reg[k].port \in Nat \ {0}
    /\ \A k, l \in DOMAIN reg : k # l => reg[k].port # reg[l].port
    /\ \A k \in DOMAIN reg : \A d \in Range(reg[k].dependencies) :
            /\ d \in DOMAIN reg
            /\ Index(declaration_order, d) < Index(declaration_order, k)
    /\ ~Cyclic(reg)

\* C28: the registry the runner is constructed with is valid (positive,
\* pairwise distinct ports; dependencies declared earlier; no cycle), and no
\* step of a run changes it, so it is valid in every state.
C28_ValidRegistry ==
    /\ ValidRegistry(self_technologies)
    /\ [][self_technologies' = self_technologies]_vars

\* The registry at work: star-nav-core, the end of the longest dependency
\* chain, has been spawned after everything it depends on.
C28_Witness ==
    /\ "star-nav-core" \in processes
    /\ DependsClosure(self_technologies, {"star-nav-core"}) \subseteq spawned
    /\ Cardinality(DependsClosure(self_technologies, {"star-nav-core"})) = 9

\* The services that depend on k, directly or through other services.
Dependents ==
    [k \in Keys |->
        {d \in Keys : k \in DependsClosure(technologies, DeclaredDeps(technologies, d))}]

\* C29 as stated: once the start loop is over, start_service has been called
\* for every service that depends, directly or transitively, on a
\* non-critical service whose start failed.
C29_DependentsAttempted ==
    pc \notin {"start", "start_wait"} =>
        \A k \in FailedStarts :
            ~technologies[k].critical => Dependents[k] \subseteq Range(startLog)

\* C29 amended: the failed start of a non-critical service keeps no
\* dependent from being attempted.  Each of its dependents has had its
\* start_service call, or the loop has not reached it yet, or the loop was
\* aborted before reaching it by the failed start of a critical service.
C29_DependentsAttemptedUnlessAborted ==
    \A k \in FailedStarts :
        ~technologies[k].critical =>
            \A d \in Dependents[k] :
                \/ d \in Range(startLog)
                \/ /\ ~aborted
                   /\ pc \in {"start", "start_wait"}
                   /\ Index(start_order, d) >= i
                \/ /\ aborted
                   /\ \E c \in FailedStarts :
                        /\ technologies[c].critical
                        /\ Index(start_order, c) < Index(start_order, d)

\* cold-jet, which is not critical, failed to start, and start_service has
\* since been called for the four services that depend on it; the last of
\* them is in its startup sleep.
C29_Witness ==
    /\ FailedStarts = {"cold-jet"}
    /\ Dependents["cold-jet"] \subseteq Range(startLog)
    /\ Cardinality(Dependents["cold-jet"]) = 4
    /\ pc = "start_wait"
    /\ start_order[i] = "star-nav-core"

\* C30: the dict run_stress_test returns is determined by which of the 50
\* requests succeed, whatever the order in which the futures complete:
\* successful_requests is the number of requests that succeed, success_rate
\* its share of the 50 in percent, passed whether that is at least 95.
C30_AggregateOrderIndependent ==
    /\ batch.state # "none" => Len(batch.results) = Cardinality(batch.done)
    /\ batch.state = "returned" =>
            LET n_ok == Cardinality({j \in DOMAIN batch.outcome : batch.outcome[j]}) IN
            /\ batch.result.total_requests = StressRequests
            /\ batch.result.successful_requests = n_ok
            /\ batch.result.success_rate = (n_ok * 100) \div StressRequests
            /\ batch.result.passed = (n_ok * 100 >= 95 * StressRequests)

\* The first and the last request failed, the first one completed after the
\* second, so the list starts with True; 48 successes are counted and the
\* stress test passes.
C30_Witness ==
    /\ batch.state = "returned"
    /\ ~batch.outcome[1] /\ ~batch.outcome[StressRequests]
    /\ batch.results[1] /\ ~batch.results[2]
    /\ batch.result.successful_requests = 48
    /\ batch.result.passed

\* C31: the success rate of a probe lies between 0 and 100, and no more
\* successes are counted than requests were issued: for the dict of
\* run_stress_test, and for run_single_benchmark at every point of its loop
\* and in its result, whether the loop ran to its end or was cut short by
\* the duration limit.
C31_SuccessRateInRange ==
    /\ pool.state = "returned" /\ "success_rate" \in DOMAIN pool.result =>
            /\ 0 <= pool.result.success_rate /\ pool.result.success_rate <= 100
            /\ 0 <= pool.result.successful_requests
            /\ pool.result.successful_requests <= pool.result.total_requests
    /\ bench.state # "none" =>
            /\ 0 <= bench.success_count
            /\ bench.success_count <= Len(bench.times)
            /\ Len(bench.times) <= bench.iterations
    /\ bench.state = "returned" =>
            /\ 0 <= bench.result.success_rate /\ bench.result.success_rate <= 10000
            /\ bench.result.success_count <= bench.result.iterations

\* A benchmark of 200 iterations was cut short after 101 requests, two of
\* which had timed out: 99 successes of 200 give 49.5 percent.
C31_Witness ==
    /\ bench.state = "returned"
    /\ bench.iterations = 200
    /\ bench.result.iterations = 101
    /\ bench.result.success_count = 99
    /\ bench.result.success_rate = 4950

C33_InterruptedStopSucceeds ==
    [][/\ (pc = "stop_wait" /\ HasOp(ops', "signal")) =>
                processes' = {} /\ alive' = {}
       /\ \A k \in Keys :
            Cardinality({n \in DOMAIN ops' : ops'[n] = Op("stop_ok", k)}) <= 1
       /\ \A n \in DOMAIN ops' :
            ops'[n][1] = "stop_fail" => ops'[n][2] \in alive'
      ]_vars

\* C34 as stated: a run during which the signal handler set running to
\* False does not return a passing verdict: when the verdict is computed
\* with running False, overall_passed is False (and main, whose exit status
\* follows the verdict, does not exit with 0).
C34_CancelledRunFails ==
    [][(pc = "finalize" /\ ~running /\ pc' = "returned") => ~results'.overall_passed]_vars

\* C35: a process that exits during the startup sleep of its start_service
\* call keeps its entry in the process table and is not added to
\* started_services.  No health, performance or stress request is made for
\* a service whose start failed, and no communication check involves one.
\* Its entry is removed only by a stop_service call that returns True, and
\* it is gone when the last stop_all_services pass of the run has ended.
C35_ExitedInStartupKeptUnprobed ==
    [][/\ (pc = "start_wait" /\ pc' # "start_wait" /\ start_order[i] \in alive \ alive') =>
                /\ start_order[i] \in processes'
                /\ start_order[i] \notin Range(started_services')
       /\ \A n \in DOMAIN ops' :
            ops'[n][1] \in {"health", "performance", "stress"} =>
                ops'[n][2] \notin FailedStarts
       /\ (pc = "comm" /\ HasOp(ops', "communication")) =>
                /\ communication_pairs[i][1] \notin FailedStarts
                /\ communication_pairs[i][2] \notin FailedStarts
       /\ \A k \in processes \ processes' :
                k \in FailedStarts => Op("stop_ok", k) \in Range(ops')
       /\ (pc = "stop_check" /\ pc' \in {"finalize", "returned", "exited"}) =>
                FailedStarts' \cap processes' = {}
      ]_vars

\* cold-jet exited during its startup sleep; the nine other services were
\* started and probed, the final pass is stopping star-nav-core, and the
\* entry of cold-jet is still in the table.
C35_Witness ==
    /\ pc = "stop_wait"
    /\ ctx = "final"
    /\ running
    /\ FailedStarts = {"cold-jet"}
    /\ "cold-jet" \in processes \ alive
    /\ "cold-jet" \notin DOMAIN results.technologies
    /\ Len(started_services) = 9

\* C36: when the finalisation is reached with total_tests = 0 it raises no
\* error: run_integration_tests returns, with success_rate = 0 and
\* overall_passed = False in the results.
C36_NoChecksNoDivision ==
    [][(pc = "finalize" /\ results.total_tests = 0 /\ pc' # "finalize") =>
            /\ pc' = "returned"
            /\ ctx' = "final"
            /\ results'.keys = results.keys \cup {"success_rate", "overall_passed"}
            /\ results'.success_rate = 0
            /\ results'.overall_passed = FALSE
      ]_vars

\* A run without any check made has been finalized, saved and reported, and
\* main has exited with status 1 through its regular path.
C36_Witness ==
    /\ pc = "exited"
    /\ ctx = "final"
    /\ results.total_tests = 0
    /\ Finalized
    /\ results.success_rate = 0
    /\ saved /\ reported
    /\ exit_status = 1

\* C37: in the benchmark runner at most one service process is alive at any
\* time.  When run_technology_benchmarks is not in progress no process is
\* alive, whether it returned its results, returned early or was left by an
\* error of a benchmark; the next service is started only then.  When
\* run_all_benchmarks returns, every technology has its entry in the
\* results, those after a failed technology included.
C37_OneServiceAtATime ==
    /\ Cardinality(suite.alive) <= 1
    /\ suite.alive \subseteq {benchmark_keys[suite.tech]}
    /\ suite.pc \in {"none", "start", "done"} => suite.alive = {}
    /\ suite.pc \in {"start", "start_wait", "tests", "stop"} =>
            DOMAIN suite.all_results = {benchmark_keys[n] : n \in 1..(suite.tech - 1)}
    /\ suite.pc = "done" => DOMAIN suite.all_results = Range(benchmark_keys)

\* run_all_benchmarks has returned: a benchmark of air-to-air-mesh raised
\* an error, neuro-fcc could not be started, and the eight other
\* technologies have their three results; no process is alive.
C37_Witness ==
    /\ suite.pc = "done"
    /\ suite.alive = {}
    /\ suite.all_results["air-to-air-mesh"] = 0
    /\ suite.all_results["neuro-fcc"] = 0
    /\ \A n \in 3..Len(benchmark_keys) :
            suite.all_results[benchmark_keys[n]] = TestsPerTechnology

\* C38: when run_single_benchmark has returned with recorded times, then
\* min_time <= p95_time <= p99_time <= max_time, both percentiles are
\* recorded times, min_time and max_time bound every recorded time, and the
\* iteration count of the result is the number of recorded times, at most
\* the configured iterations; without recorded times all statistics are 0.
C38_PercentilesOrdered ==
    bench.state = "returned" =>
        /\ bench.result.iterations = Len(bench.times)
        /\ bench.result.iterations <= bench.iterations
        /\ IF bench.times # <<>>
           THEN /\ bench.result.min_time <= bench.result.p95_time
                /\ bench.result.p95_time <= bench.result.p99_time
                /\ bench.result.p99_time <= bench.result.max_time
                /\ bench.result.p95_time \in Range(bench.times)
                /\ bench.result.p99_time \in Range(bench.times)
                /\ \A n \in DOMAIN bench.times :
                        /\ bench.result.min_time <= bench.times[n]
                        /\ bench.times[n] <= bench.result.max_time
           ELSE /\ bench.result.avg_time = 0
                /\ bench.result.min_time = 0
                /\ bench.result.max_time = 0
                /\ bench.result.p95_time = 0
                /\ bench.result.p99_time = 0

\* A benchmark of 200 iterations was ended by its duration after 101
\* requests that were not recorded in the order of their times; the four
\* statistics are all different: min_time 1 = p95_time < p99_time 2 <
\* max_time 3.
C38_Witness ==
    /\ bench.state = "returned"
    /\ bench.iterations = 200
    /\ Len(bench.times) = MaxRecorded
    /\ bench.times[1] = 1
    /\ bench.times[2] = 3
    /\ bench.result.min_time = 1
    /\ bench.result.p95_time = 1
    /\ bench.result.p99_time = 2
    /\ bench.result.max_time = 3

\* run_single_benchmark returned without one recorded time: the duration
\* was used up at the head of the first iteration.
C38_WitnessEmpty ==
    /\ bench.state = "returned"
    /\ bench.times = <<>>
    /\ bench.result.max_time = 0

\* C39: analyze_performance, called for a technology of performance_targets
\* with a PerformanceMetrics record, does not raise an error, and in the
\* analysis it returns meets_targets is true exactly when there are no
\* issues.
C39_AnalysisReturned ==
    /\ analysis.state # "raised"
    /\ analysis.state = "returned" =>
            (analysis.result.meets_targets <=> analysis.result.issues = <<>>)

====
